---- MODULE Spec2Model ----
(***************************************************************************)
(* Room session coordinator of the soundboard server (server/routes.ts):   *)
(* the clients registry, the voice presence map, the per-room cleanup      *)
(* timers and the asynchronous handlers that touch them, together with the *)
(* part of the persistent store (server/storage.ts) those handlers use.    *)
(*                                                                         *)
(* Every action is one uninterrupted run of JavaScript on the event loop:  *)
(* from the start of a callback, or the resumption after an await, up to   *)
(* the next await or the end of the callback.  A store call takes effect   *)
(* at some moment between the await that issues it and the resumption of   *)
(* the handler.  Where the code before the await changes nothing in the    *)
(* coordinator (leave_room, the timer callback, POST /api/participants),   *)
(* the start of the handler and the execution of its store call are one    *)
(* step: the step stands for the moment the database executes the call.    *)
(* Otherwise the execution is a step of its own between the step that      *)
(* issues the call and the step that resumes from it.  Store calls         *)
(* succeed, except the calls of the timer callback that the failure        *)
(* actions reject.                                                         *)
(*                                                                         *)
(* The actions constrain the variables of the program only.  The history   *)
(* variables (cleared, joinSeen, presence) and the scenario driver (jl)    *)
(* are set by the next-state relation of the specification that uses them. *)
(***************************************************************************)
EXTENDS Integers, Sequences, FiniteSets, Bags, TLC

\* ---------------------------------------------------------------- bounds
ClientIds == {"c1", "c2"}
Participants == {"p1", "p2", "p3"}
Rooms == {"R1", "R2"}
ClientOrder == <<"c1", "c2", "c3">>

\* the connections of the broadcast specification
BroadcastIds == {"c1", "c2", "c3"}

\* room every participant row belongs to (participants.roomId)
HomeRoom == [p \in Participants |-> IF p = "p3" THEN "R2" ELSE "R1"]

\* participant created as the host by POST /api/rooms
HostOf == [r \in Rooms |-> IF r = "R1" THEN "p1" ELSE "p3"]

\* the core specification exercises one room and the participant that
\* created it
CoreRooms == {"R1"}
CoreParticipants == {HostOf[r] : r \in CoreRooms}

\* total number of setTimeout handles the cleanup scheduler may create
MaxTimers == 2

\* delayed participant_joined broadcasts that may be waiting at one time
MaxPendingBroadcasts == 1

None == "none"
EmptyMap == [r \in {} |-> {}]
NoClient == [participantId |-> None, roomId |-> None]
NoTimer == 0
TimerIds == 1..MaxTimers

VARIABLES
    wsState,            \* ClientIds -> "open", "closing" or "closed"
    clients,            \* clients map: clientId -> {participantId, roomId}
    voiceParticipants,  \* voiceParticipants map: roomId -> set of participantIds
    roomCleanupTimers,  \* roomCleanupTimers map: roomId -> timer handle
    timers,             \* every setTimeout handle of the cleanup scheduler
    tasks,              \* handler invocations suspended at a store await
    pendingJoined,      \* 50 ms participant_joined broadcasts not yet run
    rooms,              \* store: rooms table
    participants,       \* store: participants table (isActive flag)
    deleteCalls,        \* number of storage.deleteRoom calls by timers
    sent,               \* what the last step sent, in order
    cleared,            \* history: timers whose entry cancelRoomCleanup removed
    joinSeen,           \* history: timers that were pending when a join was handled
    presence,           \* history: Participants -> "never", "joined" or "gone"
    jl,                 \* scenario driver: ClientIds -> "out" or "in" (joined)
    sockets,            \* browser: readyState of every WebSocket created
    globalWS,           \* use-websocket: globalWS (0 for null)
    globalIsConnected,  \* use-websocket: globalIsConnected
    globalMessageQueue, \* use-websocket: globalMessageQueue
    connectionPromise,  \* use-websocket: connectionPromise is not null
    reconnectAttempts,  \* use-websocket: reconnectAttempts
    reconnectTimers,    \* pending setTimeout(() => connect(), backoffDelay)
    wire,               \* the messages ws.send was given, in order
    passed,             \* history: number of messages given to sendMessage
    sinceOpen           \* history: reconnects scheduled since the last onopen

pvars == <<wsState, clients, voiceParticipants, roomCleanupTimers, timers,
           tasks, pendingJoined, rooms, participants, deleteCalls, sent>>

\* the state of the browser-side hook
hvars == <<sockets, globalWS, globalIsConnected, globalMessageQueue,
           connectionPromise, reconnectAttempts, reconnectTimers, wire,
           passed, sinceOpen>>

vars == <<pvars, cleared, joinSeen, presence, jl, hvars>>

\* ------------------------------------------------------------- messages
Msg(to, type, p, r, n) ==
    [to |-> to, type |-> type, participantId |-> p, roomId |-> r, count |-> n]

\* ws.send on a socket that is not OPEN delivers nothing
SendTo(ws, c, type, p, r, n) ==
    IF ws[c] = "open" THEN <<Msg(c, type, p, r, n)>> ELSE <<>>

\* variant: the excluded participant is not filtered out
RoomClientsNoExclude(cl, r, ex) ==
    {c \in DOMAIN cl : cl[c] # NoClient /\ cl[c].roomId = r}

RoomClients(cl, r, ex) ==
    {c \in DOMAIN cl : cl[c] # NoClient /\ cl[c].roomId = r
                        /\ cl[c].participantId # ex}

SeqOfClients(S) == SelectSeq(ClientOrder, LAMBDA c : c \in S)

RECURSIVE MapSends(_, _, _, _, _)
MapSends(cs, type, p, r, n) ==
    IF cs = <<>> THEN <<>>
    ELSE <<Msg(Head(cs), type, p, r, n)>> \o MapSends(Tail(cs), type, p, r, n)

\* broadcastToRoom: the messages it sends ...
BroadcastSends(cl, ws, r, type, p, n, ex) ==
    MapSends(SeqOfClients({c \in RoomClients(cl, r, ex) : ws[c] = "open"}),
             type, p, r, n)

\* broadcastToRoom when ws.send throws on the targets in th: the throw is
\* caught inside the loop and the loop goes on
BroadcastDeliver(cl, ws, r, type, p, n, ex, th) ==
    MapSends(SeqOfClients({c \in RoomClients(cl, r, ex) : ws[c] = "open" /\ c \notin th}),
             type, p, r, n)

\* variant: targets that are not OPEN stay in the map
BroadcastPruneNone(cl, ws, r, ex) == cl

\* ... and the clients map it leaves (targets that are not OPEN are removed)
BroadcastPrune(cl, ws, r, ex) ==
    [c \in DOMAIN cl |->
        IF c \in RoomClients(cl, r, ex) /\ ws[c] # "open" THEN NoClient ELSE cl[c]]

\* ---------------------------------------------------------------- store
HasActive(ps, r) == \E p \in Participants : HomeRoom[p] = r /\ ps[p] = "active"

\* storage.updateParticipant(id, {isActive}): no row, no change
UpdateParticipant(ps, p, flag) ==
    IF ps[p] \in {"active", "inactive"} THEN [ps EXCEPT ![p] = flag] ELSE ps

\* storage.deleteRoom: the participant rows of the room go with it (the
\* three deletes are read by nothing in between that tells them apart)
DeleteParticipantsOf(ps, r) ==
    [p \in Participants |->
        IF HomeRoom[p] = r /\ ps[p] \in {"active", "inactive"} THEN "deleted" ELSE ps[p]]

\* --------------------------------------------------------------- timers
TimerRec(r, st, e) == [room |-> r, st |-> st, stillEmpty |-> e]
UnusedTimer == TimerRec(None, "unused", FALSE)

UsedTimers(ts) == {t \in TimerIds : ts[t].st # "unused"}

\* clearTimeout(handle): stops a timer that has not fired, nothing otherwise
ClearTimeout(ts, t) ==
    IF t # NoTimer /\ ts[t].st = "armed" THEN [ts EXCEPT ![t].st = "cancelled"] ELSE ts

\* cancelRoomCleanup(roomId): what it does to the handle and to the map
cancelRoomCleanupTimers(ts, rct, r) == ClearTimeout(ts, rct[r])
cancelRoomCleanupMap(rct, r) == [rct EXCEPT ![r] = NoTimer]

\* ---------------------------------------------------------------- tasks
Task(kind, c, p, r, pc, st, ha) ==
    [kind |-> kind, c |-> c, participantId |-> p, roomId |-> r,
     pc |-> pc, st |-> st, hasActive |-> ha]

HandlerTasks == {k \in BagToSet(tasks) : k.kind \in {"leave", "close"}}
NumHandlerTasks ==
    BagCardinality([k \in HandlerTasks |-> tasks[k]])

AddTask(k) == tasks (+) SetToBag({k})
ReplaceTask(k, k2) == (tasks (-) SetToBag({k})) (+) SetToBag({k2})
RemoveTask(k) == tasks (-) SetToBag({k})

\* ------------------------------------------------- browser-side hook
\* use-websocket.tsx keeps one module-level connection; MaxSockets bounds the
\* sockets that exist at once (a closed socket is unreachable and its slot
\* is free again), MaxTimeouts the backoff timeouts pending at once
MaxSockets == 3
MaxMessages == 2
MaxTimeouts == 2
SocketIds == 1..MaxSockets
NoSocket == 0
maxReconnectAttempts == 5
ManualCloseCode == 1000
DuplicateCloseCode == 1000
CloseCodes == {DuplicateCloseCode, 1006}

HookInit ==
    /\ sockets = [s \in SocketIds |-> "unused"]
    /\ globalWS = NoSocket
    /\ globalIsConnected = FALSE
    /\ globalMessageQueue = <<>>
    /\ connectionPromise = FALSE
    /\ reconnectAttempts = 0
    /\ reconnectTimers = 0
    /\ wire = <<>>
    /\ passed = 0
    /\ sinceOpen = 0

\* globalWS && globalWS.readyState === WebSocket.OPEN
GlobalOpen(ws, socks) == ws # NoSocket /\ socks[ws] = "open"

\* connect(): the early return of an existing promise or open socket
ConnectReturnsEarly == connectionPromise \/ GlobalOpen(globalWS, sockets)

Free(s) == sockets[s] \in {"unused", "closed"}
HasFresh == \E s \in SocketIds : Free(s)
FreshSocket ==
    CHOOSE s \in SocketIds :
        /\ Free(s)
        /\ \A t \in SocketIds : t < s => ~Free(t)

\* connect(): the promise is stored and globalWS is the socket just created
Connect ==
    IF ConnectReturnsEarly
    THEN UNCHANGED <<sockets, globalWS, connectionPromise>>
    ELSE /\ sockets' = [sockets EXCEPT ![FreshSocket] = "connecting"]
         /\ globalWS' = FreshSocket
         /\ connectionPromise' = TRUE

\* the mount effect of a component that uses the hook
Mount ==
    /\ ConnectReturnsEarly \/ HasFresh
    /\ Connect
    /\ UNCHANGED <<globalIsConnected, globalMessageQueue, reconnectAttempts,
                   reconnectTimers, wire, passed, sinceOpen>>

\* the queue as onopen hands it to the socket that globalWS names
Flushed(ws, queue) == queue

\* onopen of socket s: every queued message is shifted, and sent only if
\* globalWS is an open socket at that moment
OnOpen(s) ==
    /\ sockets[s] = "connecting"
    /\ sockets' = [sockets EXCEPT ![s] = "open"]
    /\ globalIsConnected' = TRUE
    /\ connectionPromise' = FALSE
    /\ reconnectAttempts' = 0
    /\ sinceOpen' = 0
    /\ globalMessageQueue' = <<>>
    /\ wire' = IF GlobalOpen(globalWS, sockets')
               THEN wire \o Flushed(globalWS, globalMessageQueue)
               ELSE wire
    /\ UNCHANGED <<globalWS, reconnectTimers, passed>>

\* the closing handshake of an open socket has started (readyState CLOSING)
BeginClose(s) ==
    /\ sockets[s] = "open"
    /\ sockets' = [sockets EXCEPT ![s] = "closing"]
    /\ UNCHANGED <<globalWS, globalIsConnected, globalMessageQueue,
                   connectionPromise, reconnectAttempts, reconnectTimers,
                   wire, passed, sinceOpen>>

\* event.code !== 1000 && reconnectAttempts < maxReconnectAttempts
MayReconnectAnyCode(code, attempts) == attempts < maxReconnectAttempts
MayReconnectUnbounded(code, attempts) == code # ManualCloseCode
MayReconnect(code, attempts) ==
    code # ManualCloseCode /\ attempts < maxReconnectAttempts

\* onclose of socket s (after onerror when the connection attempt failed)
OnClose(s, code) ==
    /\ sockets[s] \in {"connecting", "open", "closing"}
    /\ sockets[s] = "connecting" => code = 1006
    /\ MayReconnect(code, reconnectAttempts) => reconnectTimers < MaxTimeouts
    /\ sockets' = [sockets EXCEPT ![s] = "closed"]
    /\ globalIsConnected' = FALSE
    /\ globalWS' = NoSocket
    /\ connectionPromise' = FALSE
    /\ IF MayReconnect(code, reconnectAttempts)
       THEN /\ reconnectAttempts' = reconnectAttempts + 1
            /\ reconnectTimers' = reconnectTimers + 1
            /\ sinceOpen' = sinceOpen + 1
       ELSE UNCHANGED <<reconnectAttempts, reconnectTimers, sinceOpen>>
    /\ UNCHANGED <<globalMessageQueue, wire, passed>>

\* the backoff timeout of onclose runs connect()
ReconnectTimeout ==
    /\ reconnectTimers > 0
    /\ ConnectReturnsEarly \/ HasFresh
    /\ reconnectTimers' = reconnectTimers - 1
    /\ Connect
    /\ UNCHANGED <<globalIsConnected, globalMessageQueue, reconnectAttempts,
                   wire, passed, sinceOpen>>

\* sendMessage(message): messages are numbered in the order they are passed
SendMessage ==
    /\ passed < MaxMessages
    /\ passed' = passed + 1
    /\ IF GlobalOpen(globalWS, sockets) /\ globalIsConnected
       THEN /\ wire' = Append(wire, passed + 1)
            /\ UNCHANGED <<sockets, globalWS, connectionPromise,
                           globalMessageQueue>>
       ELSE /\ globalMessageQueue' = Append(globalMessageQueue, passed + 1)
            /\ wire' = wire
            /\ IF globalWS = NoSocket \/ sockets[globalWS] = "closed"
               THEN (ConnectReturnsEarly \/ HasFresh) /\ Connect
               ELSE UNCHANGED <<sockets, globalWS, connectionPromise>>
    /\ UNCHANGED <<globalIsConnected, reconnectAttempts, reconnectTimers,
                   sinceOpen>>

\* ----------------------------------------------------------------- init
Init ==
    /\ wsState = [c \in ClientIds |-> "open"]
    /\ clients = [c \in ClientIds |-> NoClient]
    /\ voiceParticipants = EmptyMap
    /\ roomCleanupTimers = [r \in Rooms |-> NoTimer]
    /\ timers = [t \in TimerIds |-> UnusedTimer]
    /\ tasks = EmptyBag
    /\ pendingJoined = <<>>
    /\ rooms = [r \in Rooms |-> "none"]
    /\ participants = [p \in Participants |-> "none"]
    /\ deleteCalls = [r \in Rooms |-> 0]
    /\ sent = <<>>
    /\ cleared = {}
    /\ joinSeen = {}
    /\ presence = [p \in Participants |-> "never"]
    /\ jl = [c \in ClientIds |-> "out"]
    /\ HookInit

\* every handler that ends in checkAndScheduleRoomCleanup may create one
\* timer: MaxTimers bounds the handlers started, so no resumption blocks
TimerBudget == Cardinality(UsedTimers(timers)) + NumHandlerTasks < MaxTimers

\* messages are followed on OPEN sockets only; the participantId of a
\* message is an id the store has issued (participants[p] # "none")
CanReceive(c) == wsState[c] = "open"

\* ------------------------------------------------------------- transport
\* wss.on('connection') allocates the clientId and the ping interval and
\* touches nothing of the coordinator: "open" stands for a socket that is
\* OPEN or is still to be accepted.
\* the peer closes or the network fails: readyState has left OPEN
\* ("closing", as after close() by the server) and the close event is still
\* to be dispatched
ConnDrop(c) ==
    /\ wsState[c] = "open"
    /\ wsState' = [wsState EXCEPT ![c] = "closing"]
    /\ sent' = <<>>
    /\ UNCHANGED <<clients, voiceParticipants, roomCleanupTimers, timers, tasks,
                   pendingJoined, rooms, participants, deleteCalls>>

\* ------------------------------------------------------------- join_room
Duplicates(c, p) ==
    {d \in DOMAIN clients : d # c /\ clients[d] # NoClient /\ clients[d].participantId = p}

\* client.ws.close(1000, "Duplicate connection") on every OPEN duplicate
DuplicateCloses(c, p) ==
    MapSends(SeqOfClients({d \in Duplicates(c, p) : wsState[d] = "open"}),
             "close_duplicate", p, None, 0)

\* variant: the new entry is set and the duplicates are left in the map
RegisterClientNoEvict(cl, c, p, r) ==
    [cl EXCEPT ![c] = [participantId |-> p, roomId |-> r]]

\* the clients map once the duplicates are deleted and the new entry is set
RegisterClient(cl, c, p, r) ==
    [d \in DOMAIN cl |->
        IF d = c THEN [participantId |-> p, roomId |-> r]
        ELSE IF cl[d] # NoClient /\ cl[d].participantId = p THEN NoClient ELSE cl[d]]

AlreadyRegistered(c, p) ==
    clients[c] # NoClient /\ clients[c].participantId = p

\* variant: the repeated join_room also schedules the 50 ms broadcast
JoinRoomDuplicateBroadcasts(c, p, r) ==
    /\ CanReceive(c)
    /\ participants[p] # "none"
    /\ AlreadyRegistered(c, p)
    /\ Len(pendingJoined) < MaxPendingBroadcasts
    /\ sent' = SendTo(wsState, c, "join_confirmed", p, r, 0)
    /\ pendingJoined' = Append(pendingJoined, [participantId |-> p, roomId |-> r])
    /\ UNCHANGED <<wsState, clients, voiceParticipants, roomCleanupTimers, timers,
                   tasks, rooms, participants, deleteCalls>>

\* join_room on a connection already registered for the participant: the
\* confirmation is sent again and the handler ends
JoinRoomDuplicate(c, p, r) ==
    /\ CanReceive(c)
    /\ participants[p] # "none"
    /\ AlreadyRegistered(c, p)
    /\ sent' = SendTo(wsState, c, "join_confirmed", p, r, 0)
    /\ UNCHANGED <<wsState, clients, voiceParticipants, roomCleanupTimers, timers,
                   tasks, pendingJoined, rooms, participants, deleteCalls>>

\* variant: the confirmation goes out before the duplicates are closed
JoinSendsConfirmFirst(c, p, r) ==
    SendTo(wsState, c, "join_confirmed", p, r, 0) \o DuplicateCloses(c, p)

\* what the registering join_room sends: the closes, then join_confirmed
JoinSends(c, p, r) ==
    DuplicateCloses(c, p) \o SendTo(wsState, c, "join_confirmed", p, r, 0)

\* join_room that registers the connection
JoinRoomRegister(c, p, r) ==
    /\ CanReceive(c)
    /\ participants[p] # "none"
    /\ ~AlreadyRegistered(c, p)
    /\ Len(pendingJoined) < MaxPendingBroadcasts
    /\ wsState' = [d \in DOMAIN wsState |->
                     IF d \in Duplicates(c, p) /\ wsState[d] = "open"
                     THEN "closing" ELSE wsState[d]]
    /\ clients' = RegisterClient(clients, c, p, r)
    /\ sent' = JoinSends(c, p, r)
    /\ timers' = cancelRoomCleanupTimers(timers, roomCleanupTimers, r)
    /\ roomCleanupTimers' = cancelRoomCleanupMap(roomCleanupTimers, r)
    /\ pendingJoined' = Append(pendingJoined, [participantId |-> p, roomId |-> r])
    /\ UNCHANGED <<voiceParticipants, tasks, rooms, participants, deleteCalls>>

JoinRoom(c, p, r) == JoinRoomDuplicate(c, p, r) \/ JoinRoomRegister(c, p, r)

\* variant: participant_joined goes to the whole room, the joiner included
JoinedBroadcastToAll ==
    /\ pendingJoined # <<>>
    /\ LET b == Head(pendingJoined) IN
         /\ sent' = BroadcastSends(clients, wsState, b.roomId, "participant_joined",
                                   b.participantId, 0, None)
         /\ clients' = BroadcastPrune(clients, wsState, b.roomId, None)
    /\ pendingJoined' = Tail(pendingJoined)
    /\ UNCHANGED <<wsState, voiceParticipants, roomCleanupTimers, timers, tasks,
                   rooms, participants, deleteCalls>>

\* setTimeout(..., 50) of join_room: participant_joined to the others
JoinedBroadcast ==
    /\ pendingJoined # <<>>
    /\ LET b == Head(pendingJoined) IN
         /\ sent' = BroadcastSends(clients, wsState, b.roomId, "participant_joined",
                                   b.participantId, 0, b.participantId)
         /\ clients' = BroadcastPrune(clients, wsState, b.roomId, b.participantId)
    /\ pendingJoined' = Tail(pendingJoined)
    /\ UNCHANGED <<wsState, voiceParticipants, roomCleanupTimers, timers, tasks,
                   rooms, participants, deleteCalls>>

\* ----------------------------------------------------- voice_join / leave
\* create the room's set when the map has none, then add the participant
VoiceAdd(vp, r, p) ==
    [k \in DOMAIN vp \cup {r} |-> IF k = r
                                  THEN (IF r \in DOMAIN vp THEN vp[r] ELSE {}) \cup {p}
                                  ELSE vp[k]]

\* variant: voice_leave drops the room's whole set
VoiceRemoveDropsRoom(vp, r, p) == [k \in DOMAIN vp \ {r} |-> vp[k]]

\* variant: the room key stays when its set has become empty
VoiceRemoveKeepsKey(vp, r, p) ==
    IF r \notin DOMAIN vp THEN vp ELSE [vp EXCEPT ![r] = vp[r] \ {p}]

\* delete the participant, then drop the room key when its set is empty
VoiceRemove(vp, r, p) ==
    IF r \notin DOMAIN vp THEN vp
    ELSE IF vp[r] \ {p} = {} THEN [k \in DOMAIN vp \ {r} |-> vp[k]]
    ELSE [vp EXCEPT ![r] = vp[r] \ {p}]

\* variant: the size of the voice set is not looked up
VoiceCountZero(vp, r) == 0

\* voiceParticipants.get(roomId)?.size || 0
VoiceCount(vp, r) == IF r \in DOMAIN vp THEN Cardinality(vp[r]) ELSE 0

\* variant: the count goes out first, the confirmation last
VoiceJoinSendsCountFirst(cl, ws, vp, c, p, r) ==
    BroadcastSends(BroadcastPrune(cl, ws, r, p), ws, r,
                   "voice_participant_count_changed", None, VoiceCount(vp, r), None)
    \o BroadcastSends(cl, ws, r, "voice_participant_joined", p, 0, p)
    \o SendTo(ws, c, "voice_join_confirmed", p, r, 0)

\* what voice_join sends, vp being the voice map with the participant added:
\* the confirmation, voice_participant_joined to the others, the count to all
VoiceJoinSends(cl, ws, vp, c, p, r) ==
    SendTo(ws, c, "voice_join_confirmed", p, r, 0)
    \o BroadcastSends(cl, ws, r, "voice_participant_joined", p, 0, p)
    \o BroadcastSends(BroadcastPrune(cl, ws, r, p), ws, r,
                      "voice_participant_count_changed", None, VoiceCount(vp, r), None)

VoiceJoin(c, p, r) ==
    /\ CanReceive(c)
    /\ participants[p] # "none"
    /\ voiceParticipants' = VoiceAdd(voiceParticipants, r, p)
    /\ sent' = VoiceJoinSends(clients, wsState, voiceParticipants', c, p, r)
    /\ clients' = BroadcastPrune(BroadcastPrune(clients, wsState, r, p), wsState, r, None)
    /\ UNCHANGED <<wsState, roomCleanupTimers, timers, tasks, pendingJoined, rooms,
                   participants, deleteCalls>>

VoiceLeave(c, p, r) ==
    /\ CanReceive(c)
    /\ participants[p] # "none"
    /\ voiceParticipants' = VoiceRemove(voiceParticipants, r, p)
    /\ LET cl1 == BroadcastPrune(clients, wsState, r, p) IN
         /\ sent' = BroadcastSends(clients, wsState, r, "voice_participant_left", p, 0, p)
                    \o BroadcastSends(cl1, wsState, r, "voice_participant_count_changed",
                                      None, VoiceCount(voiceParticipants', r), None)
         /\ clients' = BroadcastPrune(cl1, wsState, r, None)
    /\ UNCHANGED <<wsState, roomCleanupTimers, timers, tasks, pendingJoined, rooms,
                   participants, deleteCalls>>

\* ------------------------------------------------ signaling, dropped input
SignalTypes == {"voice_offer", "voice_answer", "voice_ice_candidate"}

\* the bodies a signaling message may carry (offer, answer or candidate)
Payloads == {1, 2}

\* variant: the catch of the message handler answers the sender
CatchReplyError(ws, c) == SendTo(ws, c, "error", None, None, 0)

\* catch (error) of the message handler: console.error, nothing is sent
CatchReply(ws, c) == <<>>

\* variant: every connection of the room is a target
SignalTargetsRoom(cl, r, to) == {d \in DOMAIN cl : cl[d] # NoClient /\ cl[d].roomId = r}

\* the entries of clients that satisfy the predicate of find()
SignalTargets(cl, r, to) ==
    {d \in DOMAIN cl : cl[d] # NoClient /\ cl[d].roomId = r /\ cl[d].participantId = to}

\* variant: the readyState of the target is not looked at
TargetOpenAlways(ws, d) == TRUE

\* targetClient.ws.readyState === WebSocket.OPEN
TargetOpen(ws, d) == ws[d] = "open"

\* a signaling message as forwarded: the received object, serialised again,
\* with its type, from, to, roomId and body
SignalMsg(d, kind, from, to, r, body) ==
    [to |-> d, type |-> kind, participantId |-> from, target |-> to,
     roomId |-> r, count |-> body]

\* voice_offer, voice_answer, voice_ice_candidate: find() takes the first
\* entry of clients for (message.roomId, message.to); the parsed message goes
\* to it, as it came, when its socket is OPEN.  from is the sender's
\* participantId as the message states it; th: ws.send throws, which ends in
\* the catch of the handler.  Nothing is removed from clients here.
Signal(c, kind, from, to, r, body, th) ==
    /\ CanReceive(c)
    /\ LET found == SeqOfClients(SignalTargets(clients, r, to)) IN
         sent' = IF found # <<>> /\ TargetOpen(wsState, Head(found))
                 THEN (IF th THEN CatchReply(wsState, c)
                       ELSE <<SignalMsg(Head(found), kind, from, to, r, body)>>)
                 ELSE <<>>
    /\ UNCHANGED <<wsState, clients, voiceParticipants, roomCleanupTimers, timers,
                   tasks, pendingJoined, rooms, participants, deleteCalls>>

\* inbound data the switch has no case for
DroppedInputs == {"garbage", "null", "untyped", "unknown_type"}

\* what becomes of such data in the handler: JSON.parse throws on text that
\* is no JSON; on the text null, message.type throws; both end in the catch.
\* A value without type, or with a type that is no case label, leaves the
\* switch without running a case.
ParseOutcome(raw) ==
    IF raw \in {"garbage", "null"} THEN "catch" ELSE "no_case"

Dropped(c, raw) ==
    /\ CanReceive(c)
    /\ sent' = IF ParseOutcome(raw) = "catch" THEN CatchReply(wsState, c) ELSE <<>>
    /\ UNCHANGED <<wsState, clients, voiceParticipants, roomCleanupTimers, timers,
                   tasks, pendingJoined, rooms, participants, deleteCalls>>

\* --------------------------------------------- play_sound, sound upload
\* play_sound: sound_played to the room, the sender's participant excluded;
\* th is the set of targets on which ws.send throws
PlaySound(c, p, r, th) ==
    /\ CanReceive(c)
    /\ participants[p] # "none"
    /\ sent' = BroadcastDeliver(clients, wsState, r, "sound_played", p, 0, p, th)
    /\ clients' = BroadcastPrune(clients, wsState, r, p)
    /\ UNCHANGED <<wsState, voiceParticipants, roomCleanupTimers, timers, tasks,
                   pendingJoined, rooms, participants, deleteCalls>>

\* POST /api/sounds, the 100 ms timeout after the upload: sound_uploaded to
\* the whole room, nobody excluded
SoundUploaded(r, th) ==
    /\ rooms[r] = "exists"
    /\ sent' = BroadcastDeliver(clients, wsState, r, "sound_uploaded", None, 0, None, th)
    /\ clients' = BroadcastPrune(clients, wsState, r, None)
    /\ UNCHANGED <<wsState, voiceParticipants, roomCleanupTimers, timers, tasks,
                   pendingJoined, rooms, participants, deleteCalls>>

\* ------------------------------------------------------------ leave_room
\* leave_room received; the database executes
\* updateParticipant(participantId, {isActive: false}).  The handler asks
\* nothing about the sender: the specifications choose who sends it.
LeaveRoom(c, p, r) ==
    /\ CanReceive(c)
    /\ participants[p] # "none"
    /\ TimerBudget
    /\ participants' = UpdateParticipant(participants, p, "inactive")
    /\ tasks' = AddTask(Task("leave", c, p, r, "upd", "ok", FALSE))
    /\ sent' = <<>>
    /\ UNCHANGED <<wsState, clients, voiceParticipants, roomCleanupTimers, timers,
                   pendingJoined, rooms, deleteCalls>>

\* ------------------------------------------------------------- ws close
\* the close event of a connection that is still in the clients map, up to
\* the await of storage.updateParticipant
CloseRegistered(c) ==
    LET cl == clients[c]
        r == cl.roomId
        p == cl.participantId
        inVoice == r \in DOMAIN voiceParticipants /\ p \in voiceParticipants[r]
        ws1 == [wsState EXCEPT ![c] = "closed"]
        cl1 == BroadcastPrune(clients, ws1, r, None)
    IN
    /\ wsState[c] = "closing"
    /\ cl # NoClient
    /\ TimerBudget
    /\ wsState' = ws1
    /\ voiceParticipants' = VoiceRemove(voiceParticipants, r, p)
    /\ IF inVoice
       THEN /\ sent' = BroadcastSends(clients, ws1, r, "voice_participant_count_changed",
                                      None, VoiceCount(voiceParticipants', r), None)
                       \o BroadcastSends(cl1, ws1, r, "voice_participant_left", p, 0, p)
            /\ clients' = BroadcastPrune(cl1, ws1, r, p)
       ELSE /\ sent' = <<>>
            /\ clients' = clients
    /\ tasks' = AddTask(Task("close", c, p, r, "upd", "sent", FALSE))
    /\ UNCHANGED <<roomCleanupTimers, timers, pendingJoined, rooms, participants,
                   deleteCalls>>

\* the close event of a connection that is not in the clients map
CloseUnregistered(c) ==
    /\ wsState[c] = "closing"
    /\ clients[c] = NoClient
    /\ wsState' = [wsState EXCEPT ![c] = "closed"]
    /\ sent' = <<>>
    /\ UNCHANGED <<clients, voiceParticipants, roomCleanupTimers, timers, tasks,
                   pendingJoined, rooms, participants, deleteCalls>>

\* -------------------------------------------- store calls of the handlers
\* the database executes updateParticipant(id, {isActive: false}) of a
\* close handler
StoreUpdate(k) ==
    /\ k \in HandlerTasks
    /\ k.kind = "close"
    /\ k.pc = "upd" /\ k.st = "sent"
    /\ participants' = UpdateParticipant(participants, k.participantId, "inactive")
    /\ tasks' = ReplaceTask(k, [k EXCEPT !.st = "ok"])
    /\ sent' = <<>>
    /\ UNCHANGED <<wsState, clients, voiceParticipants, roomCleanupTimers, timers,
                   pendingJoined, rooms, deleteCalls>>

\* the database executes getParticipantsByRoomId(roomId)
StoreRead(k) ==
    /\ k \in HandlerTasks
    /\ k.pc = "read" /\ k.st = "sent"
    /\ tasks' = ReplaceTask(k, [k EXCEPT !.st = "ok",
                                !.hasActive = HasActive(participants, k.roomId)])
    /\ sent' = <<>>
    /\ UNCHANGED <<wsState, clients, voiceParticipants, roomCleanupTimers, timers,
                   pendingJoined, rooms, participants, deleteCalls>>

\* checkAndScheduleRoomCleanup up to its await: the existing timer is cleared
CheckCancelTimers(ts, rct, r) == ClearTimeout(ts, rct[r])
CheckCancelMap(rct, r) == [rct EXCEPT ![r] = NoTimer]

\* the handler resumes after updateParticipant and enters
\* checkAndScheduleRoomCleanup, which runs up to its own await
ResumeAfterUpdate(k) ==
    /\ k \in HandlerTasks
    /\ k.pc = "upd" /\ k.st = "ok"
    /\ timers' = CheckCancelTimers(timers, roomCleanupTimers, k.roomId)
    /\ roomCleanupTimers' = CheckCancelMap(roomCleanupTimers, k.roomId)
    /\ tasks' = ReplaceTask(k, [k EXCEPT !.pc = "read", !.st = "sent"])
    /\ sent' = <<>>
    /\ UNCHANGED <<wsState, clients, voiceParticipants, pendingJoined, rooms,
                   participants, deleteCalls>>

\* the tail of the leave_room and close handlers: participant_left, delete
TailSends(k) ==
    BroadcastSends(clients, wsState, k.roomId, "participant_left",
                   k.participantId, 0, k.participantId)
TailClients(k) ==
    [BroadcastPrune(clients, wsState, k.roomId, k.participantId) EXCEPT ![k.c] = NoClient]

NewTimer == Cardinality(UsedTimers(timers)) + 1

\* variant: a timer is armed whatever the read found
ShouldScheduleAlways(hasActive) == TRUE

\* if (!hasActiveParticipants)
ShouldSchedule(hasActive) == ~hasActive

\* checkAndScheduleRoomCleanup resumes after getParticipantsByRoomId, arms
\* the timer if nobody is active, and the handler runs to its end
ResumeAfterRead(k) ==
    /\ k \in HandlerTasks
    /\ k.pc = "read" /\ k.st = "ok"
    /\ IF ShouldSchedule(k.hasActive)
       THEN /\ timers' = [timers EXCEPT ![NewTimer] = TimerRec(k.roomId, "armed", FALSE)]
            /\ roomCleanupTimers' = [roomCleanupTimers EXCEPT ![k.roomId] = NewTimer]
       ELSE UNCHANGED <<timers, roomCleanupTimers>>
    /\ sent' = TailSends(k)
    /\ clients' = TailClients(k)
    /\ tasks' = RemoveTask(k)
    /\ UNCHANGED <<wsState, voiceParticipants, pendingJoined, rooms, participants,
                   deleteCalls>>

\* ------------------------------------ updateParticipant fails in a handler
\* leave_room received; the database rejects updateParticipant
LeaveRoomFails(c, p, r) ==
    /\ CanReceive(c)
    /\ participants[p] # "none"
    /\ TimerBudget
    /\ tasks' = AddTask(Task("leave", c, p, r, "upd", "fail", FALSE))
    /\ sent' = <<>>
    /\ UNCHANGED <<wsState, clients, voiceParticipants, roomCleanupTimers, timers,
                   pendingJoined, rooms, participants, deleteCalls>>

\* the database rejects updateParticipant of a close handler
StoreUpdateFails(k) ==
    /\ k \in HandlerTasks
    /\ k.kind = "close"
    /\ k.pc = "upd" /\ k.st = "sent"
    /\ tasks' = ReplaceTask(k, [k EXCEPT !.st = "fail"])
    /\ sent' = <<>>
    /\ UNCHANGED <<wsState, clients, voiceParticipants, roomCleanupTimers, timers,
                   pendingJoined, rooms, participants, deleteCalls>>

\* variant: the rejection ends the handler
CatchReturns == FALSE

\* the catch of the inner try only logs: the statements after it run
CatchFallsThrough == TRUE

\* the handler resumes with the rejection: the catch logs it,
\* checkAndScheduleRoomCleanup is skipped, and the handler runs to its end
\* (participant_left, clients.delete)
ResumeInCatch(k) ==
    /\ k \in HandlerTasks
    /\ k.pc = "upd" /\ k.st = "fail"
    /\ IF CatchFallsThrough
       THEN /\ sent' = TailSends(k)
            /\ clients' = TailClients(k)
       ELSE /\ sent' = <<>>
            /\ clients' = clients
    /\ tasks' = RemoveTask(k)
    /\ UNCHANGED <<wsState, voiceParticipants, roomCleanupTimers, timers,
                   pendingJoined, rooms, participants, deleteCalls>>

\* ------------------------------------------------- cleanup timer callback
StillEmpty(ps, r) == ~HasActive(ps, r)

\* the 3 s timeout has elapsed and the callback has started; the database
\* executes its re-read of the participants
TimerFire(t) ==
    /\ timers[t].st = "armed"
    /\ timers' = [timers EXCEPT ![t].st = "read_ok",
                                ![t].stillEmpty = StillEmpty(participants, timers[t].room)]
    /\ sent' = <<>>
    /\ UNCHANGED <<wsState, clients, voiceParticipants, roomCleanupTimers, tasks,
                   pendingJoined, rooms, participants, deleteCalls>>

\* variant: the clients of the room are left in the map
PurgeClientsNone(cl, r) == cl

PurgeClients(cl, r) ==
    [c \in DOMAIN cl |-> IF cl[c] # NoClient /\ cl[c].roomId = r THEN NoClient ELSE cl[c]]

PurgeVoice(vp, r) == [k \in DOMAIN vp \ {r} |-> vp[k]]

\* variant: the callback deletes whatever the re-read found
DeleteDecisionAlways(stillEmpty) == TRUE

\* if (stillEmpty)
DeleteDecision(stillEmpty) == stillEmpty

\* the callback has resumed after the re-read with stillEmpty and awaits
\* storage.deleteRoom(roomId); the database executes it
TimerCallDelete(t) ==
    /\ timers[t].st = "read_ok"
    /\ DeleteDecision(timers[t].stillEmpty)
    /\ timers' = [timers EXCEPT ![t].st = "del_ok"]
    /\ deleteCalls' = [deleteCalls EXCEPT ![timers[t].room] = @ + 1]
    /\ participants' = DeleteParticipantsOf(participants, timers[t].room)
    /\ rooms' = [rooms EXCEPT ![timers[t].room] = IF @ = "exists" THEN "deleted" ELSE @]
    /\ sent' = <<>>
    /\ UNCHANGED <<wsState, clients, voiceParticipants, roomCleanupTimers, tasks,
                   pendingJoined>>

\* not empty any more: only the timer entry is removed
TimerStandDown(t) ==
    /\ timers[t].st = "read_ok"
    /\ ~DeleteDecision(timers[t].stillEmpty)
    /\ timers' = [timers EXCEPT ![t] = TimerRec(timers[t].room, "done", FALSE)]
    /\ roomCleanupTimers' = [roomCleanupTimers EXCEPT ![timers[t].room] = NoTimer]
    /\ sent' = <<>>
    /\ UNCHANGED <<wsState, clients, voiceParticipants, tasks, pendingJoined, rooms,
                   participants, deleteCalls>>

\* deleteRoom resolved: voice set, timer entry and clients of the room go
TimerPurge(t) ==
    /\ timers[t].st = "del_ok"
    /\ timers' = [timers EXCEPT ![t] = TimerRec(timers[t].room, "done", FALSE)]
    /\ voiceParticipants' = PurgeVoice(voiceParticipants, timers[t].room)
    /\ roomCleanupTimers' = [roomCleanupTimers EXCEPT ![timers[t].room] = NoTimer]
    /\ clients' = PurgeClients(clients, timers[t].room)
    /\ sent' = <<>>
    /\ UNCHANGED <<wsState, tasks, pendingJoined, rooms, participants, deleteCalls>>

\* ------------------------------------- store failures inside the callback
\* the re-read of the participants is rejected by the database
TimerFireFails(t) ==
    /\ timers[t].st = "armed"
    /\ timers' = [timers EXCEPT ![t].st = "read_err"]
    /\ sent' = <<>>
    /\ UNCHANGED <<wsState, clients, voiceParticipants, roomCleanupTimers, tasks,
                   pendingJoined, rooms, participants, deleteCalls>>

\* storage.deleteRoom is rejected: before its first delete, or after the
\* delete of the participant rows (the deletes are not one transaction)
TimerDeleteFails(t, rowsGone) ==
    /\ timers[t].st = "read_ok"
    /\ DeleteDecision(timers[t].stillEmpty)
    /\ timers' = [timers EXCEPT ![t].st = "del_err"]
    /\ deleteCalls' = [deleteCalls EXCEPT ![timers[t].room] = @ + 1]
    /\ participants' = IF rowsGone THEN DeleteParticipantsOf(participants, timers[t].room)
                       ELSE participants
    /\ sent' = <<>>
    /\ UNCHANGED <<wsState, clients, voiceParticipants, roomCleanupTimers, tasks,
                   pendingJoined, rooms>>

\* variant: the catch block leaves the timer entry of the room in the map
CatchMapKeeps(rct, r) == rct

\* catch (error): roomCleanupTimers.delete(roomId)
CatchMap(rct, r) == [rct EXCEPT ![r] = NoTimer]

\* the callback resumes in its catch block and ends
TimerCatch(t) ==
    /\ timers[t].st \in {"read_err", "del_err"}
    /\ timers' = [timers EXCEPT ![t] = TimerRec(timers[t].room, "failed", FALSE)]
    /\ roomCleanupTimers' = CatchMap(roomCleanupTimers, timers[t].room)
    /\ sent' = <<>>
    /\ UNCHANGED <<wsState, clients, voiceParticipants, tasks, pendingJoined, rooms,
                   participants, deleteCalls>>

\* ------------------------------------------------------------ HTTP routes
\* POST /api/rooms: the room and its host participant (isActive: true)
CreateRoom(r) ==
    /\ rooms[r] = "none"
    /\ rooms' = [rooms EXCEPT ![r] = "exists"]
    /\ participants' = [participants EXCEPT ![HostOf[r]] = "active"]
    /\ sent' = <<>>
    /\ UNCHANGED <<wsState, clients, voiceParticipants, roomCleanupTimers, timers,
                   tasks, pendingJoined, deleteCalls>>

\* POST /api/participants for a new participant, or for the host returning;
\* the database creates the row, or sets the host's isActive
PostParticipant(p) ==
    /\ rooms[HomeRoom[p]] = "exists"
    /\ \/ participants[p] = "none"
       \/ p = HostOf[HomeRoom[p]] /\ participants[p] = "inactive"
    /\ \A k \in BagToSet(tasks) : ~(k.kind = "post" /\ k.participantId = p)
    /\ participants' = [participants EXCEPT ![p] = "active"]
    /\ tasks' = AddTask(Task("post", None, p, HomeRoom[p], "create", "ok", FALSE))
    /\ sent' = <<>>
    /\ UNCHANGED <<wsState, clients, voiceParticipants, roomCleanupTimers, timers,
                   pendingJoined, rooms, deleteCalls>>

\* the route resumes: cancelRoomCleanup(roomId) and the response
PostResume(k) ==
    /\ k \in BagToSet(tasks)
    /\ k.kind = "post" /\ k.st = "ok"
    /\ timers' = cancelRoomCleanupTimers(timers, roomCleanupTimers, k.roomId)
    /\ roomCleanupTimers' = cancelRoomCleanupMap(roomCleanupTimers, k.roomId)
    /\ tasks' = RemoveTask(k)
    /\ sent' = <<>>
    /\ UNCHANGED <<wsState, clients, voiceParticipants, pendingJoined, rooms,
                   participants, deleteCalls>>

\* ------------------------------------------------------------------ spec
TaskSpace ==
    {Task(kind, c, p, HomeRoom[p], pc, st, ha) :
        kind \in {"leave", "close", "post"}, c \in ClientIds \cup {None},
        p \in Participants, pc \in {"upd", "read", "create"},
        st \in {"sent", "ok"}, ha \in BOOLEAN}

\* the same with the connections of the broadcast specification
TalkTasks ==
    {Task(kind, c, p, HomeRoom[p], pc, st, ha) :
        kind \in {"close"}, c \in BroadcastIds,
        p \in Participants, pc \in {"upd", "read"},
        st \in {"sent", "ok"}, ha \in BOOLEAN}

\* history: timers pending for the room of a join that is being handled
PendingFor(r) == {t \in TimerIds : timers[t].room = r /\ timers[t].st = "armed"}
\* history: the timer whose entry a cancelRoomCleanup call removes
EntryOf(r) == {roomCleanupTimers[r]} \ {NoTimer}

\* history kept only while the callback of the timer has not finished
Running(S) == {t \in S : timers'[t].st \in {"armed", "read_ok", "del_ok"}}

\* The client (use-websocket.tsx) sends join_room and leave_room from one
\* effect and its cleanup: on a socket they alternate, join_room first.
MayJoin(c) == jl[c] = "out"
MayLeave(c) == jl[c] = "in"
Joined(c) == [jl EXCEPT ![c] = "in"]
Left(c) == [jl EXCEPT ![c] = "out"]

\* a step that is neither a message nor a cancelRoomCleanup call
Plain(A) ==
    /\ A
    /\ cleared' = Running(cleared)
    /\ joinSeen' = Running(joinSeen)
    /\ UNCHANGED <<presence, jl, hvars>>

\* the core specification: one room and its host on two connections;
\* leave_room is sent on the connection registered for the participant
Next ==
    \/ \E c \in ClientIds : Plain(ConnDrop(c))
    \/ \E c \in ClientIds : Plain(CloseRegistered(c))
    \/ \E c \in ClientIds : Plain(CloseUnregistered(c))
    \/ Plain(JoinedBroadcast)
    \/ \E k \in TaskSpace : Plain(StoreUpdate(k))
    \/ \E k \in TaskSpace : Plain(StoreRead(k))
    \/ \E k \in TaskSpace : Plain(ResumeAfterUpdate(k))
    \/ \E k \in TaskSpace : Plain(ResumeAfterRead(k))
    \/ \E t \in TimerIds : Plain(TimerFire(t))
    \/ \E t \in TimerIds : Plain(TimerCallDelete(t))
    \/ \E t \in TimerIds : Plain(TimerStandDown(t))
    \/ \E t \in TimerIds : Plain(TimerPurge(t))
    \/ \E r \in CoreRooms : Plain(CreateRoom(r))
    \/ \E p \in CoreParticipants : Plain(PostParticipant(p))
    \/ \E c \in ClientIds, p \in CoreParticipants :
          /\ AlreadyRegistered(c, p)
          /\ Plain(LeaveRoom(c, p, HomeRoom[p]))
    \/ \E c \in ClientIds, p \in CoreParticipants :
          /\ JoinRoomDuplicate(c, p, HomeRoom[p])
          /\ joinSeen' = Running(joinSeen \cup PendingFor(HomeRoom[p]))
          /\ cleared' = Running(cleared)
          /\ UNCHANGED <<presence, jl, hvars>>
    \/ \E c \in ClientIds, p \in CoreParticipants :
          /\ JoinRoomRegister(c, p, HomeRoom[p])
          /\ joinSeen' = Running(joinSeen \cup PendingFor(HomeRoom[p]))
          /\ cleared' = Running(cleared \cup EntryOf(HomeRoom[p]))
          /\ UNCHANGED <<presence, jl, hvars>>
    \/ \E k \in TaskSpace :
          /\ PostResume(k)
          /\ cleared' = Running(cleared \cup EntryOf(k.roomId))
          /\ joinSeen' = Running(joinSeen)
          /\ UNCHANGED <<presence, jl, hvars>>

Spec == Init /\ [][Next]_vars

\* ------------------------------------------- join-then-leave repetitions
\* a step of a scenario that keeps no history of timers
Quiet(A) == A /\ UNCHANGED <<cleared, joinSeen, presence, jl, hvars>>

\* the connections do nothing but join the room and leave it at once, again
\* and again; the handlers, the store and the timers run as they do
NextJL ==
    \/ \E r \in CoreRooms : Quiet(CreateRoom(r))
    \/ \E c \in ClientIds, p \in CoreParticipants :
          /\ MayJoin(c)
          /\ JoinRoomRegister(c, p, HomeRoom[p])
          /\ jl' = Joined(c)
          /\ UNCHANGED hvars
          /\ UNCHANGED <<cleared, joinSeen, presence>>
    \/ \E c \in ClientIds, p \in CoreParticipants :
          /\ MayJoin(c)
          /\ JoinRoomDuplicate(c, p, HomeRoom[p])
          /\ jl' = Joined(c)
          /\ UNCHANGED hvars
          /\ UNCHANGED <<cleared, joinSeen, presence>>
    \/ \E c \in ClientIds, p \in CoreParticipants :
          /\ MayLeave(c)
          /\ LeaveRoom(c, p, HomeRoom[p])
          /\ jl' = Left(c)
          /\ UNCHANGED hvars
          /\ UNCHANGED <<cleared, joinSeen, presence>>
    \/ Quiet(JoinedBroadcast)
    \/ \E k \in TaskSpace : Quiet(StoreRead(k))
    \/ \E k \in TaskSpace : Quiet(ResumeAfterUpdate(k))
    \/ \E k \in TaskSpace : Quiet(ResumeAfterRead(k))
    \/ \E t \in TimerIds : Quiet(TimerFire(t))
    \/ \E t \in TimerIds : Quiet(TimerCallDelete(t))
    \/ \E t \in TimerIds : Quiet(TimerPurge(t))

SpecJL == Init /\ [][NextJL]_vars

\* ------------------------------------------------ departure and eviction
\* the host and a second participant of one room; each joins once, on a
\* socket of its own
EvictParticipants == {p \in Participants : HomeRoom[p] \in CoreRooms}
SocketOf == [p \in EvictParticipants |-> IF p = HostOf[HomeRoom[p]] THEN "c1" ELSE "c2"]

Presence(p, v) == [presence EXCEPT ![p] = v]

\* the participants whose connection is lost when the socket of c drops
DroppedBy(c) == {p \in Participants : AlreadyRegistered(c, p)}

\* a step that is no arrival and no departure
Staying(A) == A /\ UNCHANGED <<cleared, joinSeen, presence, jl, hvars>>

NextEvict ==
    \/ \E r \in CoreRooms : Staying(CreateRoom(r))
    \/ \E p \in EvictParticipants :
          /\ participants[p] = "none"
          /\ Staying(PostParticipant(p))
    \/ \E k \in TaskSpace : Staying(PostResume(k))
    \/ \E p \in EvictParticipants :
          /\ presence[p] = "never"
          /\ JoinRoomRegister(SocketOf[p], p, HomeRoom[p])
          /\ presence' = Presence(p, "joined")
          /\ UNCHANGED <<cleared, joinSeen, jl, hvars>>
    \/ \E p \in EvictParticipants :
          /\ presence[p] = "joined"
          /\ LeaveRoom(SocketOf[p], p, HomeRoom[p])
          /\ presence' = Presence(p, "gone")
          /\ UNCHANGED <<cleared, joinSeen, jl, hvars>>
    \/ \E c \in ClientIds :
          /\ ConnDrop(c)
          /\ presence' = [p \in Participants |->
                            IF p \in DroppedBy(c) THEN "gone" ELSE presence[p]]
          /\ UNCHANGED <<cleared, joinSeen, jl, hvars>>
    \/ \E c \in ClientIds : Staying(CloseRegistered(c))
    \/ \E c \in ClientIds : Staying(CloseUnregistered(c))
    \/ Staying(JoinedBroadcast)
    \/ \E k \in TaskSpace : Staying(StoreUpdate(k))
    \/ \E k \in TaskSpace : Staying(StoreRead(k))
    \/ \E k \in TaskSpace : Staying(ResumeAfterUpdate(k))
    \/ \E k \in TaskSpace : Staying(ResumeAfterRead(k))
    \/ \E t \in TimerIds : Staying(TimerFire(t))
    \/ \E t \in TimerIds : Staying(TimerCallDelete(t))
    \/ \E t \in TimerIds : Staying(TimerStandDown(t))
    \/ \E t \in TimerIds : Staying(TimerPurge(t))

SpecEvict == Init /\ [][NextEvict]_vars

\* ------------------------------------------------------------ voice chat
\* the scenario of the departures with the voice messages added: a
\* participant sends voice_join and voice_leave on its socket once it has
\* joined the room there
MayTalk(p) == presence[p] # "never"

NextVoice ==
    \/ \E r \in CoreRooms : Staying(CreateRoom(r))
    \/ \E p \in EvictParticipants :
          /\ participants[p] = "none"
          /\ Staying(PostParticipant(p))
    \/ \E k \in TaskSpace : Staying(PostResume(k))
    \/ \E p \in EvictParticipants :
          /\ presence[p] = "never"
          /\ JoinRoomRegister(SocketOf[p], p, HomeRoom[p])
          /\ presence' = Presence(p, "joined")
          /\ UNCHANGED <<cleared, joinSeen, jl, hvars>>
    \/ \E p \in EvictParticipants :
          /\ MayTalk(p)
          /\ Staying(VoiceJoin(SocketOf[p], p, HomeRoom[p]))
    \/ \E p \in EvictParticipants :
          /\ MayTalk(p)
          /\ Staying(VoiceLeave(SocketOf[p], p, HomeRoom[p]))
    \/ \E p \in EvictParticipants :
          /\ presence[p] = "joined"
          /\ LeaveRoom(SocketOf[p], p, HomeRoom[p])
          /\ presence' = Presence(p, "gone")
          /\ UNCHANGED <<cleared, joinSeen, jl, hvars>>
    \/ \E c \in ClientIds :
          /\ ConnDrop(c)
          /\ presence' = [p \in Participants |->
                            IF p \in DroppedBy(c) THEN "gone" ELSE presence[p]]
          /\ UNCHANGED <<cleared, joinSeen, jl, hvars>>
    \/ \E c \in ClientIds : Staying(CloseRegistered(c))
    \/ \E c \in ClientIds : Staying(CloseUnregistered(c))
    \/ Staying(JoinedBroadcast)
    \/ \E k \in TaskSpace : Staying(StoreUpdate(k))
    \/ \E k \in TaskSpace : Staying(StoreRead(k))
    \/ \E k \in TaskSpace : Staying(ResumeAfterUpdate(k))
    \/ \E k \in TaskSpace : Staying(ResumeAfterRead(k))
    \/ \E t \in TimerIds : Staying(TimerFire(t))
    \/ \E t \in TimerIds : Staying(TimerCallDelete(t))
    \/ \E t \in TimerIds : Staying(TimerStandDown(t))
    \/ \E t \in TimerIds : Staying(TimerPurge(t))

\* the 50 ms timeout of a join_room always comes due
SpecVoice == Init /\ [][NextVoice]_vars /\ WF_vars(Staying(JoinedBroadcast))

\* ------------------------------------------- store failures of the timers
\* the join-then-leave repetitions with voice_join on a joined socket and a
\* store that may reject the calls of the timer callback
NextFail ==
    \/ \E r \in CoreRooms : Quiet(CreateRoom(r))
    \/ \E c \in ClientIds, p \in CoreParticipants :
          /\ MayJoin(c)
          /\ JoinRoomRegister(c, p, HomeRoom[p])
          /\ jl' = Joined(c)
          /\ UNCHANGED hvars
          /\ UNCHANGED <<cleared, joinSeen, presence>>
    \/ \E c \in ClientIds, p \in CoreParticipants :
          /\ MayLeave(c)
          /\ AlreadyRegistered(c, p)
          /\ Quiet(VoiceJoin(c, p, HomeRoom[p]))
    \/ \E c \in ClientIds, p \in CoreParticipants :
          /\ MayLeave(c)
          /\ LeaveRoom(c, p, HomeRoom[p])
          /\ jl' = Left(c)
          /\ UNCHANGED hvars
          /\ UNCHANGED <<cleared, joinSeen, presence>>
    \/ Quiet(JoinedBroadcast)
    \/ \E k \in TaskSpace : Quiet(StoreRead(k))
    \/ \E k \in TaskSpace : Quiet(ResumeAfterUpdate(k))
    \/ \E k \in TaskSpace : Quiet(ResumeAfterRead(k))
    \/ \E t \in TimerIds : Quiet(TimerFire(t))
    \/ \E t \in TimerIds : Quiet(TimerFireFails(t))
    \/ \E t \in TimerIds : Quiet(TimerCallDelete(t))
    \/ \E t \in TimerIds, rowsGone \in BOOLEAN : Quiet(TimerDeleteFails(t, rowsGone))
    \/ \E t \in TimerIds : Quiet(TimerCatch(t))
    \/ \E t \in TimerIds : Quiet(TimerPurge(t))

SpecFail == Init /\ [][NextFail]_vars

\* ------------------------------------------------------------ broadcasts
\* three connections, one per participant, joining either room; sounds are
\* played and uploaded while sockets drop.  The start is the state once both
\* rooms and the second participant of R1 have been created over HTTP; the
\* close event of a socket is dispatched once a broadcast has pruned it.
BroadcastSocketOf ==
    [p \in Participants |-> IF p = "p1" THEN "c1" ELSE IF p = "p2" THEN "c2" ELSE "c3"]

InitBroadcast ==
    /\ wsState = [c \in BroadcastIds |-> "open"]
    /\ clients = [c \in BroadcastIds |-> NoClient]
    /\ voiceParticipants = EmptyMap
    /\ roomCleanupTimers = [r \in Rooms |-> NoTimer]
    /\ timers = [t \in TimerIds |-> UnusedTimer]
    /\ tasks = EmptyBag
    /\ pendingJoined = <<>>
    /\ rooms = [r \in Rooms |-> "exists"]
    /\ participants = [p \in Participants |-> "active"]
    /\ deleteCalls = [r \in Rooms |-> 0]
    /\ sent = <<>>
    /\ cleared = {}
    /\ joinSeen = {}
    /\ presence = [p \in Participants |-> "never"]
    /\ jl = [c \in ClientIds |-> "out"]
    /\ HookInit

NextBroadcast ==
    \/ \E p \in Participants, r \in Rooms :
          Quiet(JoinRoomRegister(BroadcastSocketOf[p], p, r))
    \/ Quiet(JoinedBroadcast)
    \/ \E c \in BroadcastIds : Quiet(ConnDrop(c))
    \/ \E c \in BroadcastIds : Quiet(CloseUnregistered(c))
    \/ \E p \in Participants, r \in Rooms, th \in SUBSET BroadcastIds :
          Quiet(PlaySound(BroadcastSocketOf[p], p, r, th))
    \/ \E r \in Rooms, th \in SUBSET BroadcastIds : Quiet(SoundUploaded(r, th))

SpecBroadcast == InitBroadcast /\ [][NextBroadcast]_vars

\* ------------------------------------------------- voice messages at large
\* what the server accepts: voice_join and voice_leave for either room from
\* a socket, whatever it has joined; the two participants of one room, each on
\* its own socket, joining once, dropping and closing.  The start is the one
\* of the broadcast specification.
NextTalk ==
    \/ \E p \in EvictParticipants :
          /\ presence[p] = "never"
          /\ JoinRoomRegister(BroadcastSocketOf[p], p, HomeRoom[p])
          /\ presence' = Presence(p, "joined")
          /\ UNCHANGED <<cleared, joinSeen, jl, hvars>>
    \/ Staying(JoinedBroadcast)
    \/ \E p \in EvictParticipants, r \in Rooms :
          Staying(VoiceJoin(BroadcastSocketOf[p], p, r))
    \/ \E p \in EvictParticipants, r \in Rooms :
          Staying(VoiceLeave(BroadcastSocketOf[p], p, r))
    \/ \E p \in EvictParticipants : Staying(ConnDrop(BroadcastSocketOf[p]))
    \/ \E c \in BroadcastIds : Staying(CloseRegistered(c))
    \/ \E c \in BroadcastIds : Staying(CloseUnregistered(c))
    \/ \E k \in TalkTasks : Staying(StoreUpdate(k))
    \/ \E k \in TalkTasks : Staying(StoreRead(k))
    \/ \E k \in TalkTasks : Staying(ResumeAfterUpdate(k))
    \/ \E k \in TalkTasks : Staying(ResumeAfterRead(k))
    \/ \E t \in TimerIds : Staying(TimerFire(t))
    \/ \E t \in TimerIds : Staying(TimerCallDelete(t))
    \/ \E t \in TimerIds : Staying(TimerPurge(t))

SpecTalk == InitBroadcast /\ [][NextTalk]_vars

\* signaling and dropped input among three connections: every participant
\* joins its room once on its own socket; sockets drop and their closes are
\* handled; a participant's socket sends signaling messages, joined or not,
\* that name any target and any room
NextSignal ==
    \/ \E p \in Participants :
          /\ presence[p] = "never"
          /\ JoinRoomRegister(BroadcastSocketOf[p], p, HomeRoom[p])
          /\ presence' = Presence(p, "joined")
          /\ UNCHANGED <<cleared, joinSeen, jl, hvars>>
    \/ Staying(JoinedBroadcast)
    \/ \E kind \in SignalTypes, from \in Participants, to \in Participants,
          r \in Rooms, body \in Payloads, th \in BOOLEAN :
          Staying(Signal(BroadcastSocketOf[from], kind, from, to, r, body, th))
    \/ \E c \in BroadcastIds, raw \in DroppedInputs : Staying(Dropped(c, raw))
    \/ \E c \in BroadcastIds : Staying(ConnDrop(c))
    \/ \E c \in BroadcastIds : Staying(CloseRegistered(c))
    \/ \E c \in BroadcastIds : Staying(CloseUnregistered(c))
    \/ \E k \in TalkTasks : Staying(StoreUpdate(k))
    \/ \E k \in TalkTasks : Staying(StoreRead(k))
    \/ \E k \in TalkTasks : Staying(ResumeAfterUpdate(k))
    \/ \E k \in TalkTasks : Staying(ResumeAfterRead(k))

SpecSignal == InitBroadcast /\ [][NextSignal]_vars

\* the handler invocations of the specification below
ContainTasks ==
    {Task(kind, c, p, HomeRoom[p], pc, st, ha) :
        kind \in {"leave", "close"}, c \in BroadcastIds,
        p \in EvictParticipants, pc \in {"upd", "read"},
        st \in {"sent", "ok", "fail"}, ha \in BOOLEAN}

\* the participant whose handler has met a rejection is remembered
Failing(A, p) ==
    /\ A
    /\ presence' = Presence(p, "failed")
    /\ UNCHANGED <<cleared, joinSeen, jl, hvars>>

\* rejected activity updates: the two participants of one room join once,
\* leave by leave_room or by losing the socket; updateParticipant of either
\* handler succeeds or is rejected; timers fire
NextContain ==
    \/ \E p \in EvictParticipants :
          /\ presence[p] = "never"
          /\ JoinRoomRegister(BroadcastSocketOf[p], p, HomeRoom[p])
          /\ presence' = Presence(p, "joined")
          /\ UNCHANGED <<cleared, joinSeen, jl, hvars>>
    \/ Staying(JoinedBroadcast)
    \/ \E p \in EvictParticipants :
          /\ AlreadyRegistered(BroadcastSocketOf[p], p)
          /\ Staying(LeaveRoom(BroadcastSocketOf[p], p, HomeRoom[p]))
    \/ \E p \in EvictParticipants :
          /\ AlreadyRegistered(BroadcastSocketOf[p], p)
          /\ Failing(LeaveRoomFails(BroadcastSocketOf[p], p, HomeRoom[p]), p)
    \/ \E p \in EvictParticipants : Staying(ConnDrop(BroadcastSocketOf[p]))
    \/ \E c \in BroadcastIds : Staying(CloseRegistered(c))
    \/ \E c \in BroadcastIds : Staying(CloseUnregistered(c))
    \/ \E k \in ContainTasks : Staying(StoreUpdate(k))
    \/ \E k \in ContainTasks : Failing(StoreUpdateFails(k), k.participantId)
    \/ \E k \in ContainTasks : Staying(ResumeInCatch(k))
    \/ \E k \in ContainTasks : Staying(StoreRead(k))
    \/ \E k \in ContainTasks : Staying(ResumeAfterUpdate(k))
    \/ \E k \in ContainTasks : Staying(ResumeAfterRead(k))
    \/ \E t \in TimerIds : Staying(TimerFire(t))
    \/ \E t \in TimerIds : Staying(TimerCallDelete(t))
    \/ \E t \in TimerIds : Staying(TimerPurge(t))

SpecContain == InitBroadcast /\ [][NextContain]_vars

\* the handler invocations of the specification below
DepartTasks ==
    {Task(kind, c, p, HomeRoom[p], pc, st, ha) :
        kind \in {"leave", "close"}, c \in BroadcastIds,
        p \in EvictParticipants, pc \in {"upd", "read"},
        st \in {"sent", "ok"}, ha \in BOOLEAN}

\* a departure: the two participants of one room join once; a registered
\* connection sends leave_room once and after that its transport may close,
\* also while the leave_room handler awaits the store.  presence follows
\* the departure of each participant: "leaving" once leave_room was
\* received, "checked" once a handler has entered
\* checkAndScheduleRoomCleanup for it, "announced" once a handler has run
\* its participant_left broadcast
NextDepart ==
    \/ \E p \in EvictParticipants :
          /\ presence[p] = "never"
          /\ JoinRoomRegister(BroadcastSocketOf[p], p, HomeRoom[p])
          /\ presence' = Presence(p, "joined")
          /\ UNCHANGED <<cleared, joinSeen, jl, hvars>>
    \/ Staying(JoinedBroadcast)
    \/ \E p \in EvictParticipants :
          /\ presence[p] = "joined"
          /\ AlreadyRegistered(BroadcastSocketOf[p], p)
          /\ LeaveRoom(BroadcastSocketOf[p], p, HomeRoom[p])
          /\ presence' = Presence(p, "leaving")
          /\ UNCHANGED <<cleared, joinSeen, jl, hvars>>
    \/ \E p \in EvictParticipants :
          /\ presence[p] \notin {"never", "joined"}
          /\ Staying(ConnDrop(BroadcastSocketOf[p]))
    \/ \E c \in BroadcastIds : Staying(CloseRegistered(c))
    \/ \E c \in BroadcastIds : Staying(CloseUnregistered(c))
    \/ \E k \in DepartTasks : Staying(StoreUpdate(k))
    \/ \E k \in DepartTasks : Staying(StoreRead(k))
    \/ \E k \in DepartTasks :
          /\ ResumeAfterUpdate(k)
          /\ presence' = Presence(k.participantId,
                                   IF presence[k.participantId] = "announced"
                                   THEN "announced" ELSE "checked")
          /\ UNCHANGED <<cleared, joinSeen, jl, hvars>>
    \/ \E k \in DepartTasks :
          /\ ResumeAfterRead(k)
          /\ presence' = Presence(k.participantId, "announced")
          /\ UNCHANGED <<cleared, joinSeen, jl, hvars>>
    \/ \E t \in TimerIds : Staying(TimerFire(t))
    \/ \E t \in TimerIds : Staying(TimerCallDelete(t))
    \/ \E t \in TimerIds : Staying(TimerPurge(t))

SpecDepart == InitBroadcast /\ [][NextDepart]_vars

\* the close handlers of the specification below
RejoinTasks ==
    {Task("close", c, p, r, pc, st, ha) :
        c \in BroadcastIds, p \in EvictParticipants, r \in Rooms,
        pc \in {"upd", "read"}, st \in {"sent", "ok"}, ha \in BOOLEAN}

\* join_room as the server accepts it: a participant's socket sends
\* join_room for either room, again and again, registered or not; sockets
\* drop and their closes are handled; timers fire
NextRejoin ==
    \/ \E p \in EvictParticipants, r \in Rooms :
          Staying(JoinRoomRegister(BroadcastSocketOf[p], p, r))
    \/ \E p \in EvictParticipants, r \in Rooms :
          Staying(JoinRoomDuplicate(BroadcastSocketOf[p], p, r))
    \/ Staying(JoinedBroadcast)
    \/ \E p \in EvictParticipants : Staying(ConnDrop(BroadcastSocketOf[p]))
    \/ \E c \in BroadcastIds : Staying(CloseRegistered(c))
    \/ \E c \in BroadcastIds : Staying(CloseUnregistered(c))
    \/ \E k \in RejoinTasks : Staying(StoreUpdate(k))
    \/ \E k \in RejoinTasks : Staying(StoreRead(k))
    \/ \E k \in RejoinTasks : Staying(ResumeAfterUpdate(k))
    \/ \E k \in RejoinTasks : Staying(ResumeAfterRead(k))
    \/ \E t \in TimerIds : Staying(TimerFire(t))
    \/ \E t \in TimerIds : Staying(TimerCallDelete(t))
    \/ \E t \in TimerIds : Staying(TimerPurge(t))

SpecRejoin == InitBroadcast /\ [][NextRejoin]_vars

\* the hook alone: components mount, messages are passed to sendMessage,
\* sockets open, start closing and close with either code, timeouts run
Browser(A) == A /\ UNCHANGED <<pvars, cleared, joinSeen, presence, jl>>

NextHook ==
    \/ Browser(Mount)
    \/ Browser(SendMessage)
    \/ Browser(ReconnectTimeout)
    \/ \E s \in SocketIds : Browser(OnOpen(s))
    \/ \E s \in SocketIds : Browser(BeginClose(s))
    \/ \E s \in SocketIds, code \in CloseCodes : Browser(OnClose(s, code))

SpecHook == InitBroadcast /\ [][NextHook]_vars

\* ================================================================ claims
Bound(c, p) == clients[c] # NoClient /\ clients[c].participantId = p

ArmedFor(r) == {t \in TimerIds : timers[t].room = r /\ timers[t].st = "armed"}

\* ---------------------------------------------------------------- C1
\* C1: in every reachable state at most one entry of the clients map is
\* bound to a participantId; the evict-and-install of join_room is one step.
C1_OneEntryPerParticipant ==
    \A a, b \in ClientIds :
        (clients[a] # NoClient /\ clients[b] # NoClient
         /\ clients[a].participantId = clients[b].participantId) => a = b

\* a join has just evicted the previous binding and installed the new one
C1_Witness ==
    \E a, b \in ClientIds, p \in Participants :
        /\ a # b
        /\ Bound(a, p)
        /\ clients[b] = NoClient
        /\ \E i \in 1..Len(sent) : sent[i] = Msg(b, "close_duplicate", p, None, 0)

\* ---------------------------------------------------------------- C2
ClosedThenConfirmed(d, c, p) ==
    \E i, j \in 1..Len(sent') :
        /\ i < j
        /\ sent'[i] = Msg(d, "close_duplicate", p, None, 0)
        /\ sent'[j].type = "join_confirmed" /\ sent'[j].to = c

\* C2 as stated: whenever join_room for p is handled on c while another
\* connection d is bound to p, d is sent the "Duplicate connection" close
\* before join_confirmed goes to c, and d is out of the registry.
C2_DuplicateAlwaysClosed ==
    [][\A c, d \in ClientIds, p \in CoreParticipants :
          (d # c /\ Bound(d, p) /\ JoinRoom(c, p, HomeRoom[p]))
              => (ClosedThenConfirmed(d, c, p) /\ clients'[d] = NoClient)]_vars

\* C2 amended: d is out of the registry in the step that confirms the join
\* to c; d is sent the "Duplicate connection" close, ahead of the
\* join_confirmed, exactly when its socket is still OPEN.
C2_OpenDuplicateClosed ==
    [][\A c, d \in ClientIds, p \in CoreParticipants :
          (d # c /\ Bound(d, p) /\ JoinRoom(c, p, HomeRoom[p]))
              => /\ clients'[d] = NoClient
                 /\ Bound(c, p)'
                 /\ \E j \in 1..Len(sent') :
                        sent'[j] = Msg(c, "join_confirmed", p, HomeRoom[p], 0)
                 /\ wsState[d] = "open" => ClosedThenConfirmed(d, c, p)
                 /\ wsState[d] = "open" => wsState'[d] = "closing"
                 /\ wsState[d] # "open" =>
                        \A i \in 1..Len(sent') : sent'[i].to # d]_vars

\* an OPEN duplicate has been closed and the join confirmed after it
C2_Witness ==
    \E c, d \in ClientIds, p \in Participants :
        /\ d # c
        /\ Bound(c, p) /\ clients[d] = NoClient /\ wsState[d] = "closing"
        /\ Len(sent) = 2
        /\ sent[1] = Msg(d, "close_duplicate", p, None, 0)
        /\ sent[2] = Msg(c, "join_confirmed", p, HomeRoom[p], 0)

\* ---------------------------------------------------------------- C3
\* C3: a timer that was pending for the room when a join for the room was
\* handled never goes on to call deleteRoom.
C3_JoinKeepsRoom ==
    [][\A t \in TimerIds : t \in joinSeen => ~TimerCallDelete(t)]_vars

\* ---------------------------------------------------------------- C4
\* C4: for every room at most one timer is armed (not fired, not cancelled).
C4_OneTimerPerRoom ==
    \A r \in Rooms : Cardinality(ArmedFor(r)) <= 1

\* ---------------------------------------------------------------- C5
\* C5: whatever the number of join-then-leave repetitions on a room,
\* storage.deleteRoom is called at most once for the room.
C5_DeleteAtMostOnce ==
    \A r \in Rooms : deleteCalls[r] <= 1

\* ---------------------------------------------------------------- C6
\* C6: once cancelRoomCleanup has found and cleared the entry of a timer,
\* the callback of that timer neither calls deleteRoom nor purges.
C6_CancelStopsCallback ==
    [][\A t \in TimerIds :
          t \in cleared => (~TimerCallDelete(t) /\ ~TimerPurge(t))]_vars

\* ---------------------------------------------------------------- C7
\* C7: the callback calls deleteRoom only when its own re-read found no
\* active participant; when the re-read found one, the step that ends the
\* callback calls no deleteRoom, changes neither the store nor the clients
\* and voice maps, and removes the timer entry of the room.
C7_FireRechecks ==
    [][/\ \A t \in TimerIds :
            (timers[t].st = "armed" /\ timers'[t].st = "read_ok")
                => timers'[t].stillEmpty = ~HasActive(participants, timers[t].room)
       /\ \A t \in TimerIds :
            (timers[t].st = "read_ok" /\ timers'[t] # timers[t])
                => IF timers[t].stillEmpty
                   THEN deleteCalls' = [deleteCalls EXCEPT ![timers[t].room] = @ + 1]
                   ELSE /\ deleteCalls' = deleteCalls
                        /\ rooms' = rooms /\ participants' = participants
                        /\ clients' = clients
                        /\ voiceParticipants' = voiceParticipants
                        /\ timers'[t].st = "done"
                        /\ roomCleanupTimers'[timers[t].room] = NoTimer
       /\ \A r \in Rooms :
            deleteCalls'[r] # deleteCalls[r]
                => \E t \in TimerIds : /\ timers[t].room = r
                                       /\ timers[t].st = "read_ok"
                                       /\ timers[t].stillEmpty]_vars

\* a callback has stood down: it is over and its room was never deleted
C7_Witness ==
    \E t \in TimerIds :
        /\ timers[t].st = "done"
        /\ deleteCalls[timers[t].room] = 0
        /\ rooms[timers[t].room] = "exists"

\* ---------------------------------------------------------------- C8
\* every participant of the room has joined and then left or lost its socket
AllGone(r) ==
    \A p \in Participants :
        (HomeRoom[p] = r /\ participants[p] # "none") => presence[p] = "gone"

\* no handler is suspended, no broadcast or close event is due, no timer is
\* armed or running
Settled ==
    /\ tasks = EmptyBag
    /\ pendingJoined = <<>>
    /\ \A t \in TimerIds : timers[t].st \notin {"armed", "read_ok", "del_ok"}
    /\ \A c \in ClientIds : wsState[c] # "closing"

\* C8: once every participant of a room has left or disconnected and no
\* join follows, the work in progress does not end before deleteRoom has
\* been called for the room.
C8_EvictionCompletes ==
    \A r \in CoreRooms :
        (rooms[r] # "none" /\ AllGone(r) /\ Settled) => deleteCalls[r] > 0

\* ---------------------------------------------------------------- C9
\* C9 as stated: when an invocation of checkAndScheduleRoomCleanup completes,
\* a timer is recorded for the room iff its read found no active participant.
C9_RecordedIffNoneActive ==
    [][\A k \in BagToSet(tasks) :
          ResumeAfterRead(k)
              => ((roomCleanupTimers'[k.roomId] # NoTimer) <=> ~k.hasActive)]_vars

\* C9 amended: the invocation first clears and forgets the recorded timer,
\* then reads; on completion it has armed and recorded a new timer iff its
\* own read found no active participant, and otherwise it leaves the timers
\* and the entry as they are.
C9_ArmsIffNoneActive ==
    [][\A k \in BagToSet(tasks) :
          /\ ResumeAfterUpdate(k)
                => /\ roomCleanupTimers'[k.roomId] = NoTimer
                   /\ \A t \in ArmedFor(k.roomId) :
                          timers'[t].st = IF roomCleanupTimers[k.roomId] = t
                                          THEN "cancelled" ELSE "armed"
          /\ StoreRead(k)
                => \E k2 \in BagToSet(tasks') :
                       /\ k2 = [k EXCEPT !.st = "ok", !.hasActive = k2.hasActive]
                       /\ k2.hasActive = HasActive(participants, k.roomId)
          /\ ResumeAfterRead(k)
                => IF ~k.hasActive
                   THEN \E t \in TimerIds :
                           /\ timers[t].st = "unused"
                           /\ timers' = [timers EXCEPT ![t] = TimerRec(k.roomId, "armed", FALSE)]
                           /\ roomCleanupTimers'[k.roomId] = t
                   ELSE /\ timers' = timers
                        /\ roomCleanupTimers' = roomCleanupTimers]_vars

\* an invocation has completed and the timer it armed is the recorded one
C9_Witness ==
    \E r \in Rooms :
        /\ roomCleanupTimers[r] # NoTimer
        /\ timers[roomCleanupTimers[r]] = TimerRec(r, "armed", FALSE)
        /\ NumHandlerTasks = 0
        /\ participants[HostOf[r]] = "inactive"

\* ---------------------------------------------------------------- C10
\* C10: after the handler of any join_room message for a room has run, no
\* timer entry exists for the room.
C10_JoinLeavesNoEntry ==
    [][\A c \in ClientIds, p \in CoreParticipants :
          JoinRoom(c, p, HomeRoom[p])
              => roomCleanupTimers'[HomeRoom[p]] = NoTimer]_vars

\* ---------------------------------------------------------------- C11
\* C11: handling a voice_join for a room cancels the eviction timer of the
\* room: after the step no timer is armed for the room and the room has no
\* timer entry.
C11_VoiceJoinCancels ==
    [][\A p \in EvictParticipants :
          VoiceJoin(SocketOf[p], p, HomeRoom[p])
              => /\ ArmedFor(HomeRoom[p])' = {}
                 /\ roomCleanupTimers'[HomeRoom[p]] = NoTimer]_vars

\* ---------------------------------------------------------------- C12
\* C12: the step in which the callback of a timer resumes from deleteRoom
\* leaves no clients entry with the roomId of the room, no voice set for the
\* room and no timer entry for the room.
C12_PurgeClearsRoom ==
    [][\A t \in TimerIds :
          (timers[t].st = "del_ok" /\ timers'[t].st = "done")
              => LET r == timers[t].room IN
                   /\ \A c \in ClientIds :
                          clients'[c] = NoClient \/ clients'[c].roomId # r
                   /\ r \notin DOMAIN voiceParticipants'
                   /\ roomCleanupTimers'[r] = NoTimer]_vars

\* a room has been deleted and purged under a participant that had joined
\* on a socket that is still open: its entry went with the purge
C12_Witness ==
    \E t \in TimerIds, p \in EvictParticipants :
        /\ timers[t] = TimerRec(HomeRoom[p], "done", FALSE)
        /\ rooms[HomeRoom[p]] = "deleted" /\ deleteCalls[HomeRoom[p]] > 0
        /\ presence[p] = "joined" /\ wsState[SocketOf[p]] = "open"
        /\ clients[SocketOf[p]] = NoClient
        /\ HomeRoom[p] \notin DOMAIN voiceParticipants
        /\ roomCleanupTimers[HomeRoom[p]] = NoTimer

\* ---------------------------------------------------------------- C13
\* C13: when the re-read or the deleteRoom of a callback has failed, the step
\* that resumes the callback ends it there, removes the timer entry of the
\* room and changes nothing else: clients, voice sets, store, sockets and
\* suspended handlers are as before; the handle of a failed callback is never
\* the recorded one, so the next leave arms a timer as for a fresh room.
C13_FailureClearsHandle ==
    /\ [][\A t \in TimerIds :
            (timers[t].st \in {"read_err", "del_err"} /\ timers'[t] # timers[t])
                => /\ timers'[t].st = "failed"
                   /\ roomCleanupTimers'[timers[t].room] = NoTimer
                   /\ \A u \in TimerIds \ {t} : timers'[u] = timers[u]
                   /\ \A r \in Rooms \ {timers[t].room} :
                          roomCleanupTimers'[r] = roomCleanupTimers[r]
                   /\ clients' = clients
                   /\ voiceParticipants' = voiceParticipants
                   /\ UNCHANGED <<wsState, tasks, pendingJoined, rooms, participants,
                                  deleteCalls>>]_vars
    /\ [](\A t \in TimerIds, r \in Rooms :
            timers[t].st = "failed" => roomCleanupTimers[r] # t)
    /\ [][\A k \in BagToSet(tasks) :
            (ResumeAfterRead(k) /\ ~k.hasActive)
                => /\ roomCleanupTimers'[k.roomId] # NoTimer
                   /\ timers'[roomCleanupTimers'[k.roomId]] = TimerRec(k.roomId, "armed", FALSE)
                   /\ timers[roomCleanupTimers'[k.roomId]].st = "unused"]_vars

\* the callback of one timer has failed with a connection registered and in
\* voice, both still there, and a later leave has armed and recorded a new
\* timer for the room
C13_Witness ==
    \E t, u \in TimerIds, c \in ClientIds :
        /\ timers[t].st = "failed"
        /\ timers[u] = TimerRec(timers[t].room, "armed", FALSE)
        /\ roomCleanupTimers[timers[t].room] = u
        /\ clients[c] # NoClient /\ clients[c].roomId = timers[t].room
        /\ timers[t].room \in DOMAIN voiceParticipants

\* ---------------------------------------------------------------- C14
\* C14: when the close event of a socket is dispatched and the participant
\* that joined on it is still active in the store (no leave_room has marked
\* it, no other connection has taken it over), the close handler starts: it
\* goes on to mark the participant inactive and to re-check the room, and
\* its tail removes the binding.
C14_CloseUnregisters ==
    [][\A p \in EvictParticipants :
          (/\ wsState[SocketOf[p]] = "closing" /\ wsState'[SocketOf[p]] = "closed"
           /\ presence[p] # "never"
           /\ participants[p] = "active")
              => \E k \in BagToSet(tasks') :
                     /\ k.kind = "close" /\ k.c = SocketOf[p]
                     /\ k.participantId = p /\ k.roomId = HomeRoom[p]]_vars

\* ---------------------------------------------------------------- C15
\* the connections a broadcast to room r excluding participant ex is for
Targets(r, ex) ==
    {d \in DOMAIN clients : /\ clients[d] # NoClient
                             /\ clients[d].roomId = r
                             /\ clients[d].participantId # ex}

\* the messages of the step that went to connection d
SentTo(d) == {i \in 1..Len(sent') : sent'[i].to = d}

\* the step sent m to each connection of S once, and nothing else
DeliveredExactly(S, type, p, r) ==
    /\ \A d \in DOMAIN clients :
          Cardinality(SentTo(d)) = IF d \in S THEN 1 ELSE 0
    /\ \A i \in 1..Len(sent') : sent'[i] = Msg(sent'[i].to, type, p, r, 0)

\* C15: a broadcast to room r excluding participant ex, every send
\* succeeding, delivers the message once to every OPEN connection registered
\* under r whose participantId is not ex, and to no other connection: none
\* bound to ex, none of another room, none unregistered.  On a room without
\* connections it sends nothing and leaves the clients map as it is.
C15_BroadcastReaches ==
    [][/\ \A p \in Participants, r \in Rooms :
            PlaySound(BroadcastSocketOf[p], p, r, {})
                => /\ DeliveredExactly({d \in Targets(r, p) : wsState[d] = "open"},
                                       "sound_played", p, r)
                   /\ Targets(r, None) = {} => (sent' = <<>> /\ clients' = clients)
       /\ \A r \in Rooms :
            SoundUploaded(r, {})
                => /\ DeliveredExactly({d \in Targets(r, None) : wsState[d] = "open"},
                                       "sound_uploaded", None, r)
                   /\ Targets(r, None) = {} => (sent' = <<>> /\ clients' = clients)]_vars

\* three connections are registered under one room and the sound played by
\* one of them has gone to the two others
C15_Witness ==
    \E r \in Rooms, a \in Participants :
        /\ \A d \in BroadcastIds : clients[d] # NoClient /\ clients[d].roomId = r
        /\ Len(sent) = 2
        /\ \A i \in 1..2 : /\ sent[i] = Msg(sent[i].to, "sound_played", a, r, 0)
                            /\ sent[i].to # BroadcastSocketOf[a]
        /\ sent[1].to # sent[2].to

\* ---------------------------------------------------------------- C16
\* C16: in a broadcast every target that is not OPEN is removed from the
\* clients map and no other entry changes; whatever the targets that are not
\* OPEN and the targets on which send throws, every other target gets the
\* message once.
C16_BroadcastSurvives ==
    [][/\ \A p \in Participants, r \in Rooms, th \in SUBSET BroadcastIds :
            PlaySound(BroadcastSocketOf[p], p, r, th)
                => /\ DeliveredExactly(
                          {d \in Targets(r, p) : wsState[d] = "open" /\ d \notin th},
                          "sound_played", p, r)
                   /\ \A d \in DOMAIN clients :
                          clients'[d] = IF d \in Targets(r, p) /\ wsState[d] # "open"
                                        THEN NoClient ELSE clients[d]
       /\ \A r \in Rooms, th \in SUBSET BroadcastIds :
            SoundUploaded(r, th)
                => /\ DeliveredExactly(
                          {d \in Targets(r, None) : wsState[d] = "open" /\ d \notin th},
                          "sound_uploaded", None, r)
                   /\ \A d \in DOMAIN clients :
                          clients'[d] = IF d \in Targets(r, None) /\ wsState[d] # "open"
                                        THEN NoClient ELSE clients[d]]_vars

\* an upload has been announced to one connection of the room while a second
\* one, not OPEN, was pruned and the send to a third one, OPEN and registered
\* under the room, threw
C16_Witness ==
    \E r \in Rooms, d, e, f \in BroadcastIds :
        /\ sent = <<Msg(d, "sound_uploaded", None, r, 0)>>
        /\ wsState[e] = "closing" /\ clients[e] = NoClient
        /\ f # d /\ wsState[f] = "open"
        /\ clients[f] # NoClient /\ clients[f].roomId = r

\* ---------------------------------------------------------------- C17
\* C17: join_room for p handled on a connection already bound to p leaves
\* the clients map as it is, sends exactly one message, the join_confirmed
\* to that connection, schedules no participant_joined broadcast and changes
\* nothing else of the coordinator or the store.
C17_RepeatedJoinIdempotent ==
    [][\A c \in ClientIds, p \in CoreParticipants :
          (Bound(c, p) /\ JoinRoom(c, p, HomeRoom[p]))
              => /\ clients' = clients
                 /\ sent' = <<Msg(c, "join_confirmed", p, HomeRoom[p], 0)>>
                 /\ pendingJoined' = pendingJoined
                 /\ UNCHANGED <<wsState, voiceParticipants, roomCleanupTimers, timers,
                                tasks, rooms, participants, deleteCalls>>]_vars

\* a bound connection has just been confirmed again: no broadcast is waiting
C17_Witness ==
    \E c \in ClientIds, p \in CoreParticipants :
        /\ Bound(c, p)
        /\ sent = <<Msg(c, "join_confirmed", p, HomeRoom[p], 0)>>
        /\ pendingJoined = <<>>

\* ---------------------------------------------------------------- C18
JoinedMsgs(sq) == {i \in 1..Len(sq) : sq[i].type = "participant_joined"}

\* C18: the step that registers a connection for p ends its sends with the
\* join_confirmed to that connection, sends no participant_joined and
\* schedules exactly one participant_joined broadcast for p; a scheduled
\* broadcast is always emitted, once, in a later step of its own, to every
\* OPEN connection of the room not bound to p and to nobody else, never to
\* the socket p joined on; no other step sends participant_joined.
C18_JoinConfirmedThenBroadcast ==
    /\ [][\A p \in EvictParticipants :
            (~Bound(SocketOf[p], p) /\ Bound(SocketOf[p], p)')
                => /\ Len(sent') > 0
                   /\ sent'[Len(sent')] = Msg(SocketOf[p], "join_confirmed", p, HomeRoom[p], 0)
                   /\ JoinedMsgs(sent') = {}
                   /\ pendingJoined' = Append(pendingJoined,
                                              [participantId |-> p, roomId |-> HomeRoom[p]])]_vars
    /\ [][Len(pendingJoined') < Len(pendingJoined)
            => LET b == Head(pendingJoined) IN
                 /\ pendingJoined' = Tail(pendingJoined)
                 /\ DeliveredExactly(
                        {d \in Targets(b.roomId, b.participantId) : wsState[d] = "open"},
                        "participant_joined", b.participantId, b.roomId)
                 /\ \A i \in 1..Len(sent') : sent'[i].to # SocketOf[b.participantId]]_vars
    /\ [][JoinedMsgs(sent') # {} => Len(pendingJoined') < Len(pendingJoined)]_vars
    /\ (pendingJoined # <<>> ~> pendingJoined = <<>>)

\* the broadcast of a join has reached the other connection of the room
\* while the joiner is registered and got none of it
C18_Witness ==
    \E p \in EvictParticipants, d \in ClientIds :
        /\ d # SocketOf[p]
        /\ Bound(SocketOf[p], p)
        /\ sent = <<Msg(d, "participant_joined", p, HomeRoom[p], 0)>>
        /\ pendingJoined = <<>>

\* ---------------------------------------------------------------- C19
CountMsgs(sq) == {i \in 1..Len(sq) : sq[i].type = "voice_participant_count_changed"}

\* the voice set of the room, empty when the map has no key for it
VoiceSet(vp, r) == IF r \in DOMAIN vp THEN vp[r] ELSE {}

\* the step told every OPEN connection of the room the count n, once
CountBroadcast(r, n) ==
    /\ \A i \in CountMsgs(sent') :
          sent'[i] = Msg(sent'[i].to, "voice_participant_count_changed", None, r, n)
    /\ \A d \in ClientIds :
          Cardinality({i \in CountMsgs(sent') : sent'[i].to = d})
              = IF d \in Targets(r, None) /\ wsState[d] = "open" THEN 1 ELSE 0

\* the last step was the voice_join of p for r
JustVoiceJoined(p, r) ==
    /\ Len(sent) > 0
    /\ sent[1] = Msg(SocketOf[p], "voice_join_confirmed", p, r, 0)

\* C19: voice_join and voice_leave each broadcast the count once, and the
\* count is the size of the voice set of the room as the handler leaves it;
\* voice_join of p on an empty voice set tells 1, and the voice_leave of p
\* handled next tells 0 and leaves the voice set empty: two count
\* broadcasts, 1 then 0.
C19_CountAfterOperation ==
    [][\A p \in EvictParticipants :
          LET r == HomeRoom[p] IN
          /\ VoiceJoin(SocketOf[p], p, r)
                => /\ VoiceSet(voiceParticipants', r) = VoiceSet(voiceParticipants, r) \cup {p}
                   /\ CountBroadcast(r, Cardinality(VoiceSet(voiceParticipants', r)))
                   /\ VoiceSet(voiceParticipants, r) = {} => CountBroadcast(r, 1)
          /\ VoiceLeave(SocketOf[p], p, r)
                => /\ VoiceSet(voiceParticipants', r) = VoiceSet(voiceParticipants, r) \ {p}
                   /\ CountBroadcast(r, Cardinality(VoiceSet(voiceParticipants', r)))
                   /\ (JustVoiceJoined(p, r) /\ VoiceSet(voiceParticipants, r) = {p})
                         => /\ \A i \in CountMsgs(sent) : sent[i].count = 1
                            /\ CountBroadcast(r, 0)
                            /\ VoiceSet(voiceParticipants', r) = {}]_vars

\* voice_leave has just told the two connections of the room the count 0 and
\* the voice set of the room is empty
C19_Witness ==
    \E p \in EvictParticipants :
        /\ Len(sent) = 3
        /\ sent[1].type = "voice_participant_left" /\ sent[1].participantId = p
        /\ \A i \in 2..3 : sent[i] = Msg(sent[i].to, "voice_participant_count_changed",
                                         None, HomeRoom[p], 0)
        /\ sent[2].to # sent[3].to
        /\ HomeRoom[p] \notin DOMAIN voiceParticipants

\* ---------------------------------------------------------------- C20
\* the positions of the messages of a type in what the step sent
OfType(type) == {i \in 1..Len(sent') : sent'[i].type = type}

\* C20: voice_join of p handled on socket c sends first voice_join_confirmed
\* to c, then voice_participant_joined once to every OPEN connection of the
\* room not bound to p, then voice_participant_count_changed once to every
\* OPEN connection of the room, those bound to p included, and nothing else.
C20_VoiceJoinOrder ==
    [][\A p \in EvictParticipants :
          LET r == HomeRoom[p]
              c == SocketOf[p]
              others == {d \in Targets(r, p) : wsState[d] = "open"}
              all == {d \in Targets(r, None) : wsState[d] = "open"}
          IN
          VoiceJoin(c, p, r)
              => /\ sent'[1] = Msg(c, "voice_join_confirmed", p, r, 0)
                 /\ OfType("voice_join_confirmed") = {1}
                 /\ OfType("voice_participant_joined") = 2..(1 + Cardinality(others))
                 /\ OfType("voice_participant_count_changed")
                        = (2 + Cardinality(others))..Len(sent')
                 /\ Len(sent') = 1 + Cardinality(others) + Cardinality(all)
                 /\ \A d \in others : \E i \in OfType("voice_participant_joined") :
                        sent'[i] = Msg(d, "voice_participant_joined", p, r, 0)
                 /\ \A d \in all : \E i \in OfType("voice_participant_count_changed") :
                        /\ sent'[i].to = d
                        /\ sent'[i].count = VoiceCount(voiceParticipants', r)
                 /\ \A i \in OfType("voice_participant_joined") : sent'[i].to \in others
                 /\ \A i \in OfType("voice_participant_count_changed") : sent'[i].to \in all]_vars

\* a voice_join in a room of two registered connections: the confirmation,
\* voice_participant_joined to the other one, the count to both
C20_Witness ==
    \E p \in EvictParticipants, d \in ClientIds :
        /\ d # SocketOf[p] /\ Bound(SocketOf[p], p)
        /\ Len(sent) = 4
        /\ sent[1] = Msg(SocketOf[p], "voice_join_confirmed", p, HomeRoom[p], 0)
        /\ sent[2] = Msg(d, "voice_participant_joined", p, HomeRoom[p], 0)
        /\ sent[3].type = "voice_participant_count_changed"
        /\ sent[4].type = "voice_participant_count_changed"
        /\ {sent[3].to, sent[4].to} = {d, SocketOf[p]}

\* ---------------------------------------------------------------- C21
\* C21: the close of a registered connection whose participant is in the
\* voice set of its room removes the participant from the set and sends, in
\* this order, voice_participant_left to the OPEN connections of the room
\* not bound to the participant, then the new count to every OPEN connection
\* of the room: the sequence of voice_leave.
C21_CloseLeavesVoice ==
    [][\A p \in EvictParticipants :
          LET r == HomeRoom[p]
              c == SocketOf[p]
              others == {d \in Targets(r, p) : wsState[d] = "open" /\ d # c}
              all == {d \in Targets(r, None) : wsState[d] = "open" /\ d # c}
          IN
          (CloseRegistered(c) /\ Bound(c, p) /\ p \in VoiceSet(voiceParticipants, r))
              => /\ p \notin VoiceSet(voiceParticipants', r)
                 /\ OfType("voice_participant_left") = 1..Cardinality(others)
                 /\ OfType("voice_participant_count_changed")
                        = (1 + Cardinality(others))..Len(sent')
                 /\ Len(sent') = Cardinality(others) + Cardinality(all)
                 /\ \A i \in OfType("voice_participant_count_changed") :
                        sent'[i].count = VoiceCount(voiceParticipants', r)]_vars

\* ---------------------------------------------------------------- C22
\* C22: once the connection a participant joined on is out of the clients
\* map and its close event has been handled, the participant is in the voice
\* set of no room.
C22_VoiceEndsWithConnection ==
    \A p \in EvictParticipants :
        (/\ presence[p] # "never"
         /\ clients[SocketOf[p]] = NoClient
         /\ wsState[SocketOf[p]] = "closed"
         /\ \A k \in BagToSet(tasks) : k.c # SocketOf[p])
            => \A r \in Rooms : p \notin VoiceSet(voiceParticipants, r)


\* ---- C23 ----
\* C23: every participantId in the voice set of room r has at some earlier
\* point had a connection registered for r by join_room.  presence[p] records
\* that p's join_room was processed, and p only ever joins HomeRoom[p].
C23_VoiceSubsetOfJoined ==
    \A p \in EvictParticipants, r \in Rooms :
        p \in VoiceSet(voiceParticipants, r)
            => (presence[p] # "never" /\ r = HomeRoom[p])


\* ---- C24 ----
\* C24: voiceParticipants never maps a room to an empty set: a room is a key
\* of the map only while at least one participant is in its voice set.
C24_NoEmptyVoiceSet ==
    \A r \in DOMAIN voiceParticipants : voiceParticipants[r] # {}

\* the last step was the close of the only participant in the voice set of
\* R1 (count 0 first, then voice_participant_left, as only the close handler
\* sends them), and the room is no longer a key of the map
C24_Witness ==
    /\ Len(sent) >= 2
    /\ sent[1].type = "voice_participant_count_changed"
    /\ sent[1].count = 0
    /\ sent[2].type = "voice_participant_left"
    /\ "R1" \notin DOMAIN voiceParticipants


\* ---- C25 ----
\* C25: voice_join(r, p) handled while p is already in the voice set of r, and
\* voice_leave(r, p) handled while p is not in it, leave voiceParticipants as
\* it was, and every count the step reports is the size the set had before.
C25_VoiceUpdatesIdempotent ==
    [][\A p \in EvictParticipants, r \in Rooms :
          LET c == BroadcastSocketOf[p]
              before == VoiceSet(voiceParticipants, r)
          IN (\/ VoiceJoin(c, p, r) /\ p \in before
              \/ VoiceLeave(c, p, r) /\ p \notin before)
                 => /\ voiceParticipants' = voiceParticipants
                    /\ \A i \in OfType("voice_participant_count_changed") :
                           sent'[i].count = Cardinality(before)]_vars

\* a voice_join of p has just been confirmed and counted 2 to its own socket
\* while the other participant of the room is in the voice set as well
C25_Witness ==
    \E p \in EvictParticipants :
        /\ Len(sent) >= 2
        /\ sent[1] = Msg(BroadcastSocketOf[p], "voice_join_confirmed", p, HomeRoom[p], 0)
        /\ sent[Len(sent)] = Msg(sent[Len(sent)].to, "voice_participant_count_changed",
                                 None, HomeRoom[p], 2)
        /\ VoiceSet(voiceParticipants, HomeRoom[p]) = EvictParticipants


\* ---- C26 ----
\* C26: a voice_offer, voice_answer or voice_ice_candidate is delivered to at
\* most one connection: a step that sends a message of a signaling type sends
\* that one message and nothing else, to an OPEN connection registered for
\* (message.roomId, message.to), and the step is the handling of a received
\* message with the same type, sender, target, room and body.
C26_SignalToTargetOnly ==
    [][\A i \in 1..Len(sent') :
          sent'[i].type \in SignalTypes
              => LET m == sent'[i] IN
                   /\ Len(sent') = 1
                   /\ wsState[m.to] = "open"
                   /\ clients[m.to] = [participantId |-> m.target, roomId |-> m.roomId]
                   /\ Signal(BroadcastSocketOf[m.participantId], m.type,
                             m.participantId, m.target, m.roomId, m.count, FALSE)]_vars

\* an offer of p1 has just gone to the socket of p2, and to it alone, while
\* the socket of p1 is OPEN and registered for the same room
C26_Witness ==
    /\ Len(sent) = 1
    /\ sent[1].type = "voice_offer"
    /\ sent[1].participantId = "p1"
    /\ sent[1].to = "c2"
    /\ Bound("c2", "p2") /\ Bound("c1", "p1")
    /\ clients["c1"].roomId = sent[1].roomId
    /\ wsState["c1"] = "open"


\* ---- C27 ----
\* participant `to` has no OPEN connection registered for room r
NoOpenTarget(to, r) ==
    \A d \in BroadcastIds :
        clients[d] = [participantId |-> to, roomId |-> r] => wsState[d] # "open"

\* the step sends nothing and leaves the sockets and the three maps alone
NothingHappens ==
    /\ sent' = <<>>
    /\ UNCHANGED <<wsState, clients, voiceParticipants, roomCleanupTimers>>

\* C27: a signaling message for (r, to) handled while `to` has no OPEN
\* connection registered for r (never joined, unregistered again, or its
\* socket no longer OPEN with the close event still to come) is dropped: the
\* step sends nothing, to the target, the sender or anyone else, closes no
\* socket and leaves clients, voiceParticipants and roomCleanupTimers as
\* they were.
C27_SignalWithoutTargetDropped ==
    [][\A to \in Participants, r \in Rooms :
          NoOpenTarget(to, r)
              => \/ NothingHappens
                 \/ ~ \E kind \in SignalTypes, from \in Participants,
                         body \in Payloads, th \in BOOLEAN :
                         Signal(BroadcastSocketOf[from], kind, from, to, r, body, th)]_vars

\* the socket of p2 has left OPEN and its close event is still to come, so
\* p2 is still registered for R1; p1 is registered and OPEN in the same room
\* and an offer of p1 to p2 can be handled; nothing was sent in the last step
C27_Witness ==
    /\ wsState["c2"] = "closing"
    /\ clients["c2"] = [participantId |-> "p2", roomId |-> "R1"]
    /\ Bound("c1", "p1") /\ wsState["c1"] = "open"
    /\ NoOpenTarget("p2", "R1")
    /\ ENABLED Signal("c1", "voice_offer", "p1", "p2", "R1", 1, FALSE)
    /\ sent = <<>>


\* ---- C28 ----
\* C28: inbound data that cannot be parsed, or whose type is none of the
\* types the switch consumes, is dropped: the socket stays OPEN, nothing is
\* sent, and clients, voiceParticipants and roomCleanupTimers (and the
\* timers, the pending handlers and the store) are left as they were.
C28_BadInputDropped ==
    [][\A c \in BroadcastIds, raw \in DroppedInputs :
          Dropped(c, raw)
              => /\ wsState'[c] = "open"
                 /\ NothingHappens
                 /\ UNCHANGED <<timers, tasks, pendingJoined, rooms, participants,
                                deleteCalls>>]_vars

\* a registered OPEN connection with another one in its room, on which bad
\* input can be handled, and nothing was sent in the last step
C28_Witness ==
    /\ Bound("c1", "p1") /\ Bound("c2", "p2")
    /\ wsState["c1"] = "open" /\ wsState["c2"] = "open"
    /\ ENABLED Dropped("c1", "garbage")
    /\ ENABLED Dropped("c1", "unknown_type")
    /\ sent = <<>>
    /\ pendingJoined = <<>>


\* ---- C29 ----
\* C29: when updateParticipant(p, {isActive: false}) is rejected in the
\* leave_room or close handler of connection c, the handler still sends
\* participant_left once to every OPEN connection of the room not bound to p
\* and to nobody else, removes the entry of c from clients and ends; it
\* leaves the timers, the roomCleanupTimers map, the other pending handlers
\* and the store as they were.  And whatever was rejected before, a handler
\* whose own update succeeded can always go on into
\* checkAndScheduleRoomCleanup, and one whose read succeeded can finish it.
C29_UpdateFailureContained ==
    /\ [][\A k \in ContainTasks :
            ResumeInCatch(k)
                => /\ DeliveredExactly(
                          {d \in Targets(k.roomId, k.participantId) : wsState[d] = "open"},
                          "participant_left", k.participantId, k.roomId)
                   /\ clients'[k.c] = NoClient
                   /\ tasks' = tasks (-) SetToBag({k})
                   /\ UNCHANGED <<wsState, voiceParticipants, roomCleanupTimers, timers,
                                  rooms, participants, deleteCalls>>]_vars
    /\ [](\A k \in HandlerTasks :
            /\ (k.pc = "upd" /\ k.st = "ok") => ENABLED ResumeAfterUpdate(k)
            /\ (k.pc = "read" /\ k.st = "ok") => ENABLED ResumeAfterRead(k))

\* the update of p1 was rejected and its handler has ended: p1 has no entry
\* in clients and is still active in the store; the later handler of p2 has
\* read the room in checkAndScheduleRoomCleanup and found p1 active
C29_Witness ==
    /\ presence["p1"] = "failed"
    /\ clients["c1"] = NoClient
    /\ participants["p1"] = "active"
    /\ \A k \in HandlerTasks : k.participantId # "p1"
    /\ \E k \in HandlerTasks :
          /\ k.participantId = "p2" /\ k.pc = "read" /\ k.st = "ok"
          /\ k.hasActive


\* ---- C30 ----
\* C30: the timer callback never calls storage.deleteRoom(r) while the
\* clients map holds a connection registered for r.
C30_NoDeleteWhileRegistered ==
    [][\A t \in TimerIds :
          TimerCallDelete(t)
              => \A c \in DOMAIN clients :
                    clients[c] = NoClient \/ clients[c].roomId # timers[t].room]_vars


\* ---- C31 ----
\* C31: for a registered connection that sends leave_room and whose
\* transport then closes, the eviction check is entered once and
\* participant_left is broadcast once: no handler enters
\* checkAndScheduleRoomCleanup for a participant whose departure was already
\* checked, and no connection receives participant_left for a participant
\* whose departure was already announced.
C31_DepartureHandledOnce ==
    [][\A k \in DepartTasks :
          /\ ResumeAfterUpdate(k) => presence[k.participantId] = "leaving"
          /\ (ResumeAfterRead(k) /\ presence[k.participantId] = "announced")
                => sent' = <<>>]_vars


\* ---- C32 ----
\* C32: every timer that is armed and has not fired is the one recorded in
\* roomCleanupTimers for its room, so that cancelRoomCleanup stops it.
C32_ArmedIsRecorded ==
    \A t \in TimerIds :
        timers[t].st = "armed" => roomCleanupTimers[timers[t].room] = t


\* ---- C33 ----
\* C33: once no handler is suspended and no delayed broadcast is waiting, a
\* connection that is OPEN and whose last registration message was
\* join_room (jl = "in": confirmed, no leave_room sent since) has an entry
\* in the clients map.  Rooms that were evicted are left aside.
C33_JoinedStaysRegistered ==
    \A c \in ClientIds :
        (/\ tasks = EmptyBag
         /\ pendingJoined = <<>>
         /\ \A r \in Rooms : deleteCalls[r] = 0
         /\ jl[c] = "in"
         /\ wsState[c] = "open")
            => clients[c] # NoClient


\* ---- C34 ----
\* C34: no connection receives participant_left for p while the delayed
\* participant_joined of p's registration is still waiting to be sent (each
\* participant registers once here, so the waiting broadcast is the one of
\* the registration that is being left).
C34_LeftNotBeforeJoined ==
    [][\A i \in 1..Len(sent') :
          sent'[i].type = "participant_left"
              => \A j \in 1..Len(pendingJoined) :
                    pendingJoined[j].participantId # sent'[i].participantId]_vars


\* ---- C35 ----
\* C35: a voice_join or voice_leave sent by a connection registered in one
\* room delivers nothing to a connection registered in another room and
\* leaves the voice set and the timer entry of every other room as they were.
C35_RoomIsolation ==
    [][\A p \in EvictParticipants, r \in Rooms :
          LET c == BroadcastSocketOf[p] IN
            ((VoiceJoin(c, p, r) \/ VoiceLeave(c, p, r)) /\ clients[c] # NoClient)
                => /\ \A i \in 1..Len(sent') :
                         clients[sent'[i].to].roomId = clients[c].roomId
                   /\ \A o \in Rooms \ {clients[c].roomId} :
                         /\ VoiceSet(voiceParticipants', o) = VoiceSet(voiceParticipants, o)
                         /\ roomCleanupTimers'[o] = roomCleanupTimers[o]]_vars


\* ---- C36 ----
\* C36: every join_confirmed carries the participantId and the roomId under
\* which the connection it is sent to is registered in the clients map once
\* the handler that sent it has run.
C36_ConfirmMatchesRegistry ==
    [][\A i \in 1..Len(sent') :
          sent'[i].type = "join_confirmed"
              => clients'[sent'[i].to] = [participantId |-> sent'[i].participantId,
                                          roomId |-> sent'[i].roomId]]_vars


\* C37: a socket closed with code 1000, the code the server's join_room
\* handler uses to evict a duplicate connection, schedules no reconnect:
\* the onclose step adds no backoff timeout, does not count an attempt and
\* creates no socket
C37_NormalCloseNoReconnect ==
    /\ DuplicateCloseCode = ManualCloseCode
    /\ [][\A s \in SocketIds :
            OnClose(s, DuplicateCloseCode) =>
                /\ reconnectTimers' = reconnectTimers
                /\ reconnectAttempts' = reconnectAttempts
                /\ \A t \in SocketIds :
                       sockets'[t] = "connecting" => sockets[t] = "connecting"]_vars

\* the last socket was closed with code 1000 while attempts were left:
\* nothing is pending, nothing is connecting and globalWS is null
C37_Witness ==
    /\ \E s \in SocketIds : sockets[s] = "closed"
    /\ \A s \in SocketIds : Free(s)
    /\ globalWS = NoSocket
    /\ reconnectTimers = 0
    /\ reconnectAttempts = 0


\* C38: automatic reconnection is bounded: the reconnects that onclose has
\* scheduled since the last successful open never exceed
\* maxReconnectAttempts, and every onopen sets reconnectAttempts back to 0
C38_ReconnectBounded ==
    /\ [](sinceOpen <= maxReconnectAttempts /\ reconnectAttempts = sinceOpen)
    /\ [][\A s \in SocketIds : OnOpen(s) => reconnectAttempts' = 0]_vars

\* the limit is reached and one more connection attempt is about to fail
C38_Witness ==
    /\ sinceOpen = maxReconnectAttempts
    /\ \E s \in SocketIds : sockets[s] = "connecting" /\ ENABLED OnClose(s, 1006)


\* C39: a message passed to sendMessage while the socket is not open is
\* queued and, once a connection opens, sent exactly once, in the order it
\* was queued and before any later message: at every moment the messages
\* sent followed by the messages queued are the messages passed, in order
C39_QueuedSentOnceInOrder ==
    wire \o globalMessageQueue = [i \in 1..passed |-> i]

====
